---------------------------- MODULE Spec2Model ----------------------------
(***************************************************************************)
(* Phase-sequence timer engine of the workout timer (src/unnamed/part_000; *)
(* src/unnamed/part_001 and src/script.js hold older copies of the same    *)
(* engine).                                                                *)
(*                                                                         *)
(* Time is counted in ticks: one tick is one call of updateTimer, which    *)
(* subtracts 0.01 from timeRemaining.  A duration d of the model is d      *)
(* ticks.  timeRemaining is a double and 0.01 is not a binary fraction, so *)
(* the subtraction that should reach 0 ends a little below 0 for some      *)
(* durations (30 -> -1.9e-12 after 3000 ticks) and a little above 0 for    *)
(* others (10 -> 1.7e-13 after 1000 ticks).  `remainder' records that such *)
(* a positive remainder, smaller than a tick, is left above the whole      *)
(* ticks of timeRemaining; which of the two happens is left open for every *)
(* phase.                                                                  *)
(*                                                                         *)
(* The browser's timers are modelled without clock: `timers' holds the     *)
(* pending setTimeout callbacks in the order they were scheduled, and a    *)
(* callback may run when no callback scheduled before it has a delay that  *)
(* is shorter or equal.  `liveIntervals' counts the running setInterval    *)
(* tick drivers.                                                           *)
(***************************************************************************)
EXTENDS Integers, Sequences, FiniteSets, TLC

-----------------------------------------------------------------------------
(* Bounds of the model *)

\* largest duration typed into a form of the running machine, in ticks
MaxDuration == 2
\* largest sets-per-round, rounds and people count typed into a form
MaxCount == 2
\* number of clicks on the workout start button that are followed
MaxStartClicks == 2
\* number of confirmed restarts after a completed workout
MaxRestarts == 1
\* number of clicks on the breathing start button that are followed
MaxBreathingStartClicks == 2
\* ticks a stopwatch is followed for
MaxStopwatchTicks == 2
\* laps a stopwatch is followed for
MaxLaps == 2
\* largest duration given to the sequence builders checked on their own
MaxBuildDuration == 3
\* largest count given to the sequence builders checked on their own
MaxBuildCount == 3

-----------------------------------------------------------------------------
(* Program constants *)

\* setTimeout delays, in milliseconds
SettleDelay == 500
CompletionDelay == 1000
RestartDelay == 100
StartClickDelay == 50

\* defaults of loadConfigFromForm and loadBreathingConfigFromForm
DefaultSetupDuration == 10
DefaultWorkDuration == 30
DefaultNumberOfPeople == 3
DefaultBreathIn == 4
DefaultBreathOut == 4

-----------------------------------------------------------------------------
(* Phases and the sequence builders *)

\* A phase object.  Fields a builder leaves out of the object literal are 0
\* here: the engine reads them as `phase.set || 0', `phase.nextSet || 0',
\* `phase.person || 0'.
Phase(type, duration, round, set, nextSet, person) ==
    [type |-> type, duration |-> duration, round |-> round,
     set |-> set, nextSet |-> nextSet, person |-> person]

\* sequence.reduce((sum, phase) => sum + phase.duration, 0)
RECURSIVE SumDurations(_)
SumDurations(sequence) ==
    IF sequence = << >> THEN 0
    ELSE Head(sequence).duration + SumDurations(Tail(sequence))

\* faulty inner loop: `person < numberOfPeople', the last person has no turn
RECURSIVE HeadToHeadPersonLoopOffByOne(_, _, _)
HeadToHeadPersonLoopOffByOne(config, round, person) ==
    IF person >= config.numberOfPeople THEN << >>
    ELSE << Phase("work", config.workDuration, round, 0, 0, person) >>
         \o HeadToHeadPersonLoopOffByOne(config, round, person + 1)

\* inner loop of buildHeadToHeadSequence: person = from .. numberOfPeople
RECURSIVE HeadToHeadPersonLoop(_, _, _)
HeadToHeadPersonLoop(config, round, person) ==
    IF person > config.numberOfPeople THEN << >>
    ELSE << Phase("work", config.workDuration, round, 0, 0, person) >>
         \o HeadToHeadPersonLoop(config, round, person + 1)

\* outer loop of buildHeadToHeadSequence: round = from .. numberOfRounds
RECURSIVE HeadToHeadRoundLoop(_, _)
HeadToHeadRoundLoop(config, round) ==
    IF round > config.numberOfRounds THEN << >>
    ELSE HeadToHeadPersonLoop(config, round, 1)
         \o HeadToHeadRoundLoop(config, round + 1)

\* the list buildHeadToHeadSequence stores in phaseSequence
HeadToHeadSequenceOf(config) ==
    (IF config.setupDuration > 0
       THEN << Phase("setup", config.setupDuration, 0, 0, 0, 0) >>
       ELSE << >>)
    \o HeadToHeadRoundLoop(config, 1)

\* faulty inner loop: a rest after the last set of a round too
RECURSIVE SetLoopRestAfterEverySet(_, _, _)
SetLoopRestAfterEverySet(config, round, set) ==
    IF set > config.setsPerRound THEN << >>
    ELSE << Phase("work", config.workDuration, round, set, 0, 0) >>
         \o (IF config.restDuration > 0
               THEN << Phase("rest", config.restDuration, round, set, set + 1, 0) >>
               ELSE << >>)
         \o SetLoopRestAfterEverySet(config, round, set + 1)

\* inner loop of buildPhaseSequence: set = from .. setsPerRound
RECURSIVE SetLoop(_, _, _)
SetLoop(config, round, set) ==
    IF set > config.setsPerRound THEN << >>
    ELSE << Phase("work", config.workDuration, round, set, 0, 0) >>
         \o (IF set < config.setsPerRound /\ config.restDuration > 0
               THEN << Phase("rest", config.restDuration, round, set, set + 1, 0) >>
               ELSE << >>)
         \o SetLoop(config, round, set + 1)

\* faulty outer loop: a long rest after the last round too
RECURSIVE RoundLoopLongRestAfterEveryRound(_, _)
RoundLoopLongRestAfterEveryRound(config, round) ==
    IF round > config.numberOfRounds THEN << >>
    ELSE SetLoop(config, round, 1)
         \o (IF config.longRestDuration > 0
               THEN << Phase("longRest", config.longRestDuration, round, 0, 0, 0) >>
               ELSE << >>)
         \o RoundLoopLongRestAfterEveryRound(config, round + 1)

\* outer loop of buildPhaseSequence: round = from .. numberOfRounds
RECURSIVE RoundLoop(_, _)
RoundLoop(config, round) ==
    IF round > config.numberOfRounds THEN << >>
    ELSE SetLoop(config, round, 1)
         \o (IF round < config.numberOfRounds /\ config.longRestDuration > 0
               THEN << Phase("longRest", config.longRestDuration, round, 0, 0, 0) >>
               ELSE << >>)
         \o RoundLoop(config, round + 1)

\* the list buildPhaseSequence stores in phaseSequence
PhaseSequenceOf(config) ==
    (IF config.setupDuration > 0
       THEN << Phase("setup", config.setupDuration, 0, 0, 0, 0) >>
       ELSE << >>)
    \o (IF config.warmupDuration > 0
          THEN << Phase("warmup", config.warmupDuration, 0, 0, 0, 0) >>
          ELSE << >>)
    \o RoundLoop(config, 1)

\* buildBreathingSequence that pushes the first hold before the breath in
BreathingSequenceOfHoldFirst(bconfig) ==
    (IF bconfig.inhaledHold > 0
       THEN << Phase("inhaledHold", bconfig.inhaledHold, 0, 0, 0, 0) >> ELSE << >>)
    \o (IF bconfig.breathIn > 0
          THEN << Phase("breathIn", bconfig.breathIn, 0, 0, 0, 0) >> ELSE << >>)
    \o (IF bconfig.breathOut > 0
          THEN << Phase("breathOut", bconfig.breathOut, 0, 0, 0, 0) >> ELSE << >>)
    \o (IF bconfig.exhaledHold > 0
          THEN << Phase("exhaledHold", bconfig.exhaledHold, 0, 0, 0, 0) >> ELSE << >>)

\* the list buildBreathingSequence stores in breathingPhaseSequence
BreathingSequenceOf(bconfig) ==
    (IF bconfig.breathIn > 0
       THEN << Phase("breathIn", bconfig.breathIn, 0, 0, 0, 0) >> ELSE << >>)
    \o (IF bconfig.inhaledHold > 0
          THEN << Phase("inhaledHold", bconfig.inhaledHold, 0, 0, 0, 0) >> ELSE << >>)
    \o (IF bconfig.breathOut > 0
          THEN << Phase("breathOut", bconfig.breathOut, 0, 0, 0, 0) >> ELSE << >>)
    \o (IF bconfig.exhaledHold > 0
          THEN << Phase("exhaledHold", bconfig.exhaledHold, 0, 0, 0, 0) >> ELSE << >>)

-----------------------------------------------------------------------------
(* State *)

VARIABLES
    workoutState,           \* the workoutState object, one field per property
    elements,               \* which control buttons are displayed
    timers,                 \* pending setTimeout callbacks, in scheduling order
    liveIntervals,          \* running setInterval(updateTimer, 10) drivers
    liveBreathingIntervals, \* running setInterval(updateBreathingTimer, 10) drivers
    emitted,                \* cues and dialogs produced by the last step
    completesSinceLoad,     \* phase-complete cues since the phase was loaded
    remainder,              \* rounding remainders left above the whole ticks
    clicks                  \* clicks and restarts followed so far

vars == << workoutState, elements, timers, liveIntervals, liveBreathingIntervals,
           emitted, completesSinceLoad, remainder, clicks >>

\* intervalId and breathingIntervalId: null, or the handle of the driver the
\* last setInterval call created
Null == 0
Handle == 1

\* the object literal that initialises workoutState
InitialWorkoutState ==
    [config |-> [setupDuration |-> 10, warmupDuration |-> 0, workDuration |-> 30,
                 restDuration |-> 10, longRestDuration |-> 60, setsPerRound |-> 4,
                 numberOfRounds |-> 1, numberOfPeople |-> 0],
     workoutMode |-> "normal",
     currentPhase |-> "ready",
     currentRound |-> 0,
     currentSet |-> 0,
     nextSet |-> 0,
     currentPerson |-> 0,
     timeRemaining |-> 0,
     totalWorkoutTime |-> 0,
     elapsedTime |-> 0,
     lapTimes |-> << >>,
     lapStartTime |-> 0,
     intervalId |-> Null,
     isPaused |-> FALSE,
     isRunning |-> FALSE,
     isCompleting |-> FALSE,
     isTransitioning |-> FALSE,
     phaseSequence |-> << >>,
     currentPhaseIndex |-> 0,
     breathingMode |-> FALSE,
     breathingConfig |-> [breathIn |-> 4, inhaledHold |-> 0, breathOut |-> 4,
                          exhaledHold |-> 0],
     currentBreathingPhase |-> "ready",
     breathingTimeRemaining |-> 0,
     breathingPhaseSequence |-> << >>,
     currentBreathingPhaseIndex |-> 0,
     breathingIntervalId |-> Null,
     breathingIsPaused |-> FALSE,
     breathingIsRunning |-> FALSE,
     breathingIsTransitioning |-> FALSE]

\* the display state the page gives the control buttons when it loads
InitialElements ==
    [startBtn |-> TRUE, pauseBtn |-> FALSE, lapBtn |-> FALSE,
     breathingStartBtn |-> TRUE, breathingPauseBtn |-> FALSE]

\* timeRemaining and breathingTimeRemaining start at exactly 0
InitialRemainder == [timeRemaining |-> FALSE, breathingTimeRemaining |-> FALSE]

InitialClicks == [start |-> 0, restart |-> 0, breathingStart |-> 0]

\* The whole state as one value, so that a function of the program is an
\* operator from the state before it to the state after it.
Machine ==
    [ws |-> workoutState, elements |-> elements, timers |-> timers,
     liveIntervals |-> liveIntervals,
     liveBreathingIntervals |-> liveBreathingIntervals,
     emitted |-> emitted, completesSinceLoad |-> completesSinceLoad,
     remainder |-> remainder, clicks |-> clicks]

\* the state at the start of a handler: nothing emitted yet
Entry == [Machine EXCEPT !.emitted = {}]

Becomes(m) ==
    /\ workoutState' = m.ws
    /\ elements' = m.elements
    /\ timers' = m.timers
    /\ liveIntervals' = m.liveIntervals
    /\ liveBreathingIntervals' = m.liveBreathingIntervals
    /\ emitted' = m.emitted
    /\ completesSinceLoad' = m.completesSinceLoad
    /\ remainder' = m.remainder
    /\ clicks' = m.clicks

\* element i (0-based, as in the code) of a phase list
PhaseAt(sequence, i) == sequence[i + 1]

\* playBeep(type) with its vibrate call, and confirm(): recorded, no effect
Emit(m, cue) == [m EXCEPT !.emitted = @ \cup {cue}]

\* setTimeout(callback, delay): the callback joins the pending ones
Timer(kind, nextIndex) == [kind |-> kind, nextIndex |-> nextIndex, stale |-> FALSE]
SetTimeout(m, kind, nextIndex) ==
    [m EXCEPT !.timers = Append(@, Timer(kind, nextIndex))]

Delay(kind) ==
    CASE kind = "settle" -> SettleDelay
      [] kind = "breathingSettle" -> SettleDelay
      [] kind = "completion" -> CompletionDelay
      [] kind = "restart" -> RestartDelay
      [] kind = "startClick" -> StartClickDelay
      [] kind = "breathingStartClick" -> StartClickDelay

\* a pending callback can run next unless one scheduled before it is due
\* no later than it is
CanFire(i) ==
    \A j \in 1..(i - 1) : Delay(timers[j].kind) > Delay(timers[i].kind)

RemoveAt(sequence, i) ==
    SubSeq(sequence, 1, i - 1) \o SubSeq(sequence, i + 1, Len(sequence))

-----------------------------------------------------------------------------
(* The workout timer engine: each function of the code as an operator from *)
(* the state before the call to the state after it                         *)

\* parseInt(value) || default: 0 (and an empty input, which parses to NaN)
\* gives the default
OrDefault(value, default) == IF value = 0 THEN default ELSE value

loadConfigFromForm(m, form) ==
    IF m.ws.workoutMode = "headToHead"
    THEN [m EXCEPT !.ws.config =
            [setupDuration |-> OrDefault(form.setupDuration, DefaultSetupDuration),
             workDuration |-> OrDefault(form.workDuration, DefaultWorkDuration),
             numberOfPeople |-> OrDefault(form.numberOfPeople, DefaultNumberOfPeople),
             numberOfRounds |-> OrDefault(form.numberOfRounds, 1),
             warmupDuration |-> 0,
             restDuration |-> 0,
             longRestDuration |-> 0,
             setsPerRound |-> 0]]
    ELSE [m EXCEPT !.ws.config =
            [setupDuration |-> OrDefault(form.setupDuration, DefaultSetupDuration),
             warmupDuration |-> OrDefault(form.warmupDuration, 0),
             workDuration |-> OrDefault(form.workDuration, DefaultWorkDuration),
             restDuration |-> OrDefault(form.restDuration, 0),
             longRestDuration |-> OrDefault(form.longRestDuration, 0),
             setsPerRound |-> OrDefault(form.setsPerRound, 1),
             numberOfRounds |-> OrDefault(form.numberOfRounds, 1),
             numberOfPeople |-> 0]]

buildHeadToHeadSequence(m) ==
    LET sequence == HeadToHeadSequenceOf(m.ws.config)
    IN  Emit([m EXCEPT !.ws.phaseSequence = sequence,
                       !.ws.currentPhaseIndex = 0,
                       !.ws.totalWorkoutTime = SumDurations(sequence)],
             "sequenceBuilt")

\* faulty buildPhaseSequence: the total leaves the phases before the first
\* round out
buildPhaseSequenceTotalOfRounds(m) ==
    LET sequence == PhaseSequenceOf(m.ws.config)
    IN  Emit([m EXCEPT !.ws.phaseSequence = sequence,
                       !.ws.currentPhaseIndex = 0,
                       !.ws.totalWorkoutTime = SumDurations(RoundLoop(m.ws.config, 1))],
             "sequenceBuilt")

buildPhaseSequence(m) ==
    LET sequence == PhaseSequenceOf(m.ws.config)
    IN  Emit([m EXCEPT !.ws.phaseSequence = sequence,
                       !.ws.currentPhaseIndex = 0,
                       !.ws.totalWorkoutTime = SumDurations(sequence)],
             "sequenceBuilt")

\* faulty clearInterval: both timers share one interval handle
clearTickIntervalOfBothTimers(m) ==
    IF m.ws.intervalId # Null
    THEN [m EXCEPT !.liveIntervals = @ - 1, !.ws.intervalId = Null,
                   !.ws.breathingIntervalId = Null]
    ELSE m

\* clearInterval(intervalId) and intervalId = null, when intervalId is set
clearTickInterval(m) ==
    IF m.ws.intervalId # Null
    THEN [m EXCEPT !.liveIntervals = @ - 1, !.ws.intervalId = Null]
    ELSE m

\* resetTimer calls no clearTimeout: the callbacks pending at a reset stay
\* pending.  They are marked, which tells them from the callbacks of a later
\* run and changes nothing of what they do.
MarkPending(m, kinds) ==
    [m EXCEPT !.timers =
        [i \in 1..Len(@) |->
            IF @[i].kind \in kinds THEN [@[i] EXCEPT !.stale = TRUE] ELSE @[i]]]

\* faulty resetTimer: isTransitioning is left to the settle callback
resetTimerKeepingTransition(m) ==
    LET m1 == clearTickInterval(m)
        m2 == [m1 EXCEPT !.ws.isRunning = FALSE,
                         !.ws.isPaused = FALSE,
                         !.ws.isCompleting = FALSE,
                         !.ws.currentPhase = "ready",
                         !.ws.currentPhaseIndex = 0,
                         !.ws.currentRound = 0,
                         !.ws.currentSet = 0,
                         !.ws.nextSet = 0,
                         !.ws.currentPerson = 0,
                         !.ws.timeRemaining = 0,
                         !.remainder.timeRemaining = FALSE,
                         !.ws.elapsedTime = 0,
                         !.ws.lapTimes = << >>,
                         !.ws.lapStartTime = 0,
                         !.elements.startBtn = TRUE,
                         !.elements.pauseBtn = FALSE,
                         !.elements.lapBtn = FALSE,
                         !.completesSinceLoad = 0]
    IN  MarkPending(m2, {"settle", "completion", "restart"})

\* faulty resetTimer: the stopwatch state is left as it is (as in
\* src/script.js, which has no stopwatch)
resetTimerKeepingLaps(m) ==
    LET m1 == clearTickInterval(m)
        m2 == [m1 EXCEPT !.ws.isRunning = FALSE,
                         !.ws.isPaused = FALSE,
                         !.ws.isCompleting = FALSE,
                         !.ws.isTransitioning = FALSE,
                         !.ws.currentPhase = "ready",
                         !.ws.currentPhaseIndex = 0,
                         !.ws.currentRound = 0,
                         !.ws.currentSet = 0,
                         !.ws.nextSet = 0,
                         !.ws.currentPerson = 0,
                         !.ws.timeRemaining = 0,
                         !.remainder.timeRemaining = FALSE,
                         !.ws.elapsedTime = 0,
                         !.elements.startBtn = TRUE,
                         !.elements.pauseBtn = FALSE,
                         !.elements.lapBtn = FALSE,
                         !.completesSinceLoad = 0]
    IN  MarkPending(m2, {"settle", "completion", "restart"})

resetTimer(m) ==
    LET m1 == clearTickInterval(m)
        m2 == [m1 EXCEPT !.ws.isRunning = FALSE,
                         !.ws.isPaused = FALSE,
                         !.ws.isCompleting = FALSE,
                         !.ws.isTransitioning = FALSE,
                         !.ws.currentPhase = "ready",
                         !.ws.currentPhaseIndex = 0,
                         !.ws.currentRound = 0,
                         !.ws.currentSet = 0,
                         !.ws.nextSet = 0,
                         !.ws.currentPerson = 0,
                         !.ws.timeRemaining = 0,
                         !.remainder.timeRemaining = FALSE,
                         !.ws.elapsedTime = 0,
                         !.ws.lapTimes = << >>,
                         !.ws.lapStartTime = 0,
                         !.elements.startBtn = TRUE,
                         !.elements.pauseBtn = FALSE,
                         !.elements.lapBtn = FALSE,
                         !.completesSinceLoad = 0]
    IN  MarkPending(m2, {"settle", "completion", "restart"})

\* completeWorkout that also discards the sequence of the run
completeWorkoutDiscardingSequence(m) ==
    IF m.ws.isCompleting THEN m
    ELSE LET m1 == clearTickInterval([m EXCEPT !.ws.isCompleting = TRUE])
             m2 == [m1 EXCEPT !.ws.isRunning = FALSE,
                              !.ws.currentPhase = "complete",
                              !.ws.phaseSequence = << >>,
                              !.ws.totalWorkoutTime = 0,
                              !.elements.startBtn = TRUE,
                              !.elements.pauseBtn = FALSE]
         IN  SetTimeout(Emit(m2, "complete"), "completion", 0)

completeWorkout(m) ==
    IF m.ws.isCompleting THEN m
    ELSE LET m1 == clearTickInterval([m EXCEPT !.ws.isCompleting = TRUE])
             m2 == [m1 EXCEPT !.ws.isRunning = FALSE,
                              !.ws.currentPhase = "complete",
                              !.elements.startBtn = TRUE,
                              !.elements.pauseBtn = FALSE]
         IN  SetTimeout(Emit(m2, "complete"), "completion", 0)

\* faulty loadCurrentPhase: currentPerson is not loaded (as in src/script.js,
\* which has no head-to-head mode)
loadCurrentPhaseWithoutPerson(m) ==
    IF \/ m.ws.currentPhaseIndex < 0
       \/ m.ws.currentPhaseIndex >= Len(m.ws.phaseSequence)
    THEN completeWorkout(m)
    ELSE LET phase == PhaseAt(m.ws.phaseSequence, m.ws.currentPhaseIndex)
         IN  [m EXCEPT !.ws.currentPhase = phase.type,
                       !.ws.timeRemaining = phase.duration,
                       !.remainder.timeRemaining = FALSE,
                       !.ws.currentRound = phase.round,
                       !.ws.currentSet = phase.set,
                       !.ws.nextSet = phase.nextSet,
                       !.completesSinceLoad = 0]

loadCurrentPhase(m) ==
    IF \/ m.ws.currentPhaseIndex < 0
       \/ m.ws.currentPhaseIndex >= Len(m.ws.phaseSequence)
    THEN completeWorkout(m)
    ELSE LET phase == PhaseAt(m.ws.phaseSequence, m.ws.currentPhaseIndex)
         IN  [m EXCEPT !.ws.currentPhase = phase.type,
                       !.ws.timeRemaining = phase.duration,
                       !.remainder.timeRemaining = FALSE,
                       !.ws.currentRound = phase.round,
                       !.ws.currentSet = phase.set,
                       !.ws.nextSet = phase.nextSet,
                       !.ws.currentPerson = phase.person,
                       !.completesSinceLoad = 0]

\* startStopwatch that starts from zero
startStopwatchFromZero(m) ==
    LET m1 == [m EXCEPT !.ws.isRunning = TRUE,
                        !.ws.isPaused = FALSE,
                        !.ws.elapsedTime = 0,
                        !.ws.lapStartTime = 0,
                        !.elements.startBtn = FALSE,
                        !.elements.pauseBtn = TRUE,
                        !.elements.lapBtn = TRUE,
                        !.ws.intervalId = Handle,
                        !.liveIntervals = @ + 1]
    IN  Emit(m1, "start")

startStopwatch(m) ==
    LET m1 == [m EXCEPT !.ws.isRunning = TRUE,
                        !.ws.isPaused = FALSE,
                        !.ws.lapStartTime = m.ws.elapsedTime,
                        !.elements.startBtn = FALSE,
                        !.elements.pauseBtn = TRUE,
                        !.elements.lapBtn = TRUE,
                        !.ws.intervalId = Handle,
                        !.liveIntervals = @ + 1]
    IN  Emit(m1, "start")

\* faulty validation: the work duration is not looked at
ConfigAcceptedWithoutWorkCheck(ws) ==
    IF ws.workoutMode = "headToHead"
    THEN ~(ws.config.numberOfPeople <= 0 \/ ws.config.numberOfRounds <= 0)
    ELSE ~(ws.config.setsPerRound <= 0 \/ ws.config.numberOfRounds <= 0)

\* the validation of startTimer: TRUE when the configuration is let through
ConfigAccepted(ws) ==
    IF ws.workoutMode = "headToHead"
    THEN /\ ~(ws.config.workDuration <= 0)
         /\ ~(ws.config.numberOfPeople <= 0 \/ ws.config.numberOfRounds <= 0)
    ELSE /\ ~(ws.config.workDuration <= 0)
         /\ ~(ws.config.setsPerRound <= 0 \/ ws.config.numberOfRounds <= 0)

\* startTimer that builds the sequence before it validates the configuration
startTimerBuildingFirst(m, form) ==
    IF m.ws.workoutMode = "stopwatch" THEN startStopwatch(m)
    ELSE
    LET m1 == loadConfigFromForm(m, form)
        m2 == IF m1.ws.workoutMode = "headToHead"
                THEN buildHeadToHeadSequence(m1)
                ELSE buildPhaseSequence(m1)
    IN  IF ~ConfigAccepted(m1.ws) \/ Len(m2.ws.phaseSequence) = 0
        THEN Emit(m2, "alert")
        ELSE
        LET m3 == [m2 EXCEPT !.ws.isRunning = TRUE,
                             !.ws.isPaused = FALSE,
                             !.ws.currentPhaseIndex = 0,
                             !.ws.elapsedTime = 0]
            m4 == loadCurrentPhase(m3)
            m5 == [m4 EXCEPT !.elements.startBtn = FALSE,
                             !.elements.pauseBtn = TRUE,
                             !.elements.lapBtn = FALSE,
                             !.ws.intervalId = Handle,
                             !.liveIntervals = @ + 1]
        IN  Emit(m5, "start")

startTimer(m, form) ==
    IF m.ws.workoutMode = "stopwatch" THEN startStopwatch(m)
    ELSE
    LET m1 == loadConfigFromForm(m, form)
    IN  IF ~ConfigAccepted(m1.ws) THEN Emit(m1, "alert")
        ELSE
        LET m2 == IF m1.ws.workoutMode = "headToHead"
                    THEN buildHeadToHeadSequence(m1)
                    ELSE buildPhaseSequence(m1)
        IN  IF Len(m2.ws.phaseSequence) = 0 THEN Emit(m2, "alert")
            ELSE
            LET m3 == [m2 EXCEPT !.ws.isRunning = TRUE,
                                 !.ws.isPaused = FALSE,
                                 !.ws.currentPhaseIndex = 0,
                                 !.ws.elapsedTime = 0]
                m4 == loadCurrentPhase(m3)
                m5 == [m4 EXCEPT !.elements.startBtn = FALSE,
                                 !.elements.pauseBtn = TRUE,
                                 !.elements.lapBtn = FALSE,
                                 !.ws.intervalId = Handle,
                                 !.liveIntervals = @ + 1]
            IN  Emit(m5, "start")

\* settle callback that waits for the resume: while paused it does nothing
settleCallbackHeldByPause(m, nextIndex) ==
    IF ~m.ws.isRunning THEN [m EXCEPT !.ws.isTransitioning = FALSE]
    ELSE IF m.ws.isPaused THEN m
    ELSE
    LET m1 == [m EXCEPT !.ws.currentPhaseIndex = nextIndex,
                        !.ws.isTransitioning = FALSE]
    IN  IF m1.ws.currentPhaseIndex < Len(m1.ws.phaseSequence)
        THEN loadCurrentPhase(m1)
        ELSE completeWorkout(m1)

\* settle callback that gives the round-start cue in head-to-head mode too
settleCallbackCueInEveryMode(m, nextIndex) ==
    IF ~m.ws.isRunning THEN [m EXCEPT !.ws.isTransitioning = FALSE]
    ELSE
    LET m1 == [m EXCEPT !.ws.currentPhaseIndex = nextIndex,
                        !.ws.isTransitioning = FALSE]
    IN  IF m1.ws.currentPhaseIndex < Len(m1.ws.phaseSequence)
        THEN LET nextPhase == PhaseAt(m1.ws.phaseSequence, m1.ws.currentPhaseIndex)
                 m2 == IF nextPhase.type = "work" /\ nextPhase.round > m1.ws.currentRound
                         THEN Emit(m1, "roundStart")
                       ELSE m1
             IN  loadCurrentPhase(m2)
        ELSE completeWorkout(m1)

\* the callback updateTimer passes to setTimeout(..., 500); nextIndex is the
\* value the closure captured
settleCallback(m, nextIndex) ==
    IF ~m.ws.isRunning THEN [m EXCEPT !.ws.isTransitioning = FALSE]
    ELSE
    LET m1 == [m EXCEPT !.ws.currentPhaseIndex = nextIndex,
                        !.ws.isTransitioning = FALSE]
    IN  IF m1.ws.currentPhaseIndex < Len(m1.ws.phaseSequence)
        THEN LET nextPhase == PhaseAt(m1.ws.phaseSequence, m1.ws.currentPhaseIndex)
                 m2 == IF m1.ws.workoutMode = "headToHead" /\ nextPhase.type = "work"
                         THEN Emit(m1, "personSwitch")
                       ELSE IF /\ m1.ws.workoutMode = "normal"
                               /\ nextPhase.type = "work"
                               /\ nextPhase.set = 1
                               /\ nextPhase.round > m1.ws.currentRound
                         THEN Emit(m1, "roundStart")
                       ELSE m1
             IN  loadCurrentPhase(m2)
        ELSE completeWorkout(m1)

\* timeRemaining <= 0, for the double that timeRemaining is
TimeIsUp(m) == m.ws.timeRemaining <= 0 /\ ~m.remainder.timeRemaining

\* timeRemaining -= 0.01 and elapsedTime += 0.01.  The subtraction from one
\* whole tick leaves a positive remainder or not (leavesRemainder); the
\* subtraction from a remainder alone goes below 0.
SubtractTick(m, leavesRemainder) ==
    [m EXCEPT !.ws.timeRemaining = @ - 1,
              !.ws.elapsedTime = @ + 1,
              !.remainder.timeRemaining =
                  m.ws.timeRemaining = 1 /\ ~m.remainder.timeRemaining
                  /\ leavesRemainder]

\* faulty updateTimer: neither isTransitioning nor wasComplete is looked at,
\* every tick at 0 is a phase boundary
updateTimerWithoutOnceGuards(m, leavesRemainder) ==
    IF ~m.ws.isRunning \/ m.ws.isPaused THEN m
    ELSE IF m.ws.workoutMode = "stopwatch"
    THEN [m EXCEPT !.ws.elapsedTime = @ + 1]
    ELSE
    LET m1 == IF ~TimeIsUp(m) THEN SubtractTick(m, leavesRemainder) ELSE m
        m2 == IF m1.ws.timeRemaining < 0
                THEN [m1 EXCEPT !.ws.timeRemaining = 0]
                ELSE m1
    IN  IF TimeIsUp(m2)
        THEN LET m3 == [m2 EXCEPT !.ws.isTransitioning = TRUE,
                                  !.completesSinceLoad = @ + 1]
                 nextIndex == m3.ws.currentPhaseIndex + 1
             IN  SetTimeout(Emit(m3, "phaseComplete"), "settle", nextIndex)
        ELSE m2

\* faulty updateTimer: isPaused is not looked at
updateTimerIgnoringPause(m, leavesRemainder) ==
    IF ~m.ws.isRunning \/ m.ws.isTransitioning THEN m
    ELSE IF m.ws.workoutMode = "stopwatch"
    THEN [m EXCEPT !.ws.elapsedTime = @ + 1]
    ELSE
    LET wasComplete == TimeIsUp(m)
        m1 == IF ~wasComplete THEN SubtractTick(m, leavesRemainder) ELSE m
        m2 == IF m1.ws.timeRemaining < 0
                THEN [m1 EXCEPT !.ws.timeRemaining = 0]
                ELSE m1
    IN  IF ~wasComplete /\ TimeIsUp(m2)
        THEN LET m3 == [m2 EXCEPT !.ws.isTransitioning = TRUE,
                                  !.completesSinceLoad = @ + 1]
                 nextIndex == m3.ws.currentPhaseIndex + 1
             IN  SetTimeout(Emit(m3, "phaseComplete"), "settle", nextIndex)
        ELSE m2

\* updateTimer without its stopwatch branch
updateTimerCountingDownStopwatch(m, leavesRemainder) ==
    IF ~m.ws.isRunning \/ m.ws.isPaused \/ m.ws.isTransitioning THEN m
    ELSE
    LET wasComplete == TimeIsUp(m)
        m1 == IF ~wasComplete THEN SubtractTick(m, leavesRemainder) ELSE m
        m2 == IF m1.ws.timeRemaining < 0
                THEN [m1 EXCEPT !.ws.timeRemaining = 0]
                ELSE m1
    IN  IF ~wasComplete /\ TimeIsUp(m2)
        THEN LET m3 == [m2 EXCEPT !.ws.isTransitioning = TRUE,
                                  !.completesSinceLoad = @ + 1]
                 nextIndex == m3.ws.currentPhaseIndex + 1
             IN  SetTimeout(Emit(m3, "phaseComplete"), "settle", nextIndex)
        ELSE m2

updateTimer(m, leavesRemainder) ==
    IF ~m.ws.isRunning \/ m.ws.isPaused \/ m.ws.isTransitioning THEN m
    ELSE IF m.ws.workoutMode = "stopwatch"
    THEN [m EXCEPT !.ws.elapsedTime = @ + 1]
    ELSE
    LET wasComplete == TimeIsUp(m)
        m1 == IF ~wasComplete THEN SubtractTick(m, leavesRemainder) ELSE m
        m2 == IF m1.ws.timeRemaining < 0
                THEN [m1 EXCEPT !.ws.timeRemaining = 0]
                ELSE m1
    IN  IF ~wasComplete /\ TimeIsUp(m2)
        THEN LET m3 == [m2 EXCEPT !.ws.isTransitioning = TRUE,
                                  !.completesSinceLoad = @ + 1]
                 nextIndex == m3.ws.currentPhaseIndex + 1
             IN  SetTimeout(Emit(m3, "phaseComplete"), "settle", nextIndex)
        ELSE m2

\* pauseTimer without its isRunning test
pauseTimerWhenStopped(m) == [m EXCEPT !.ws.isPaused = TRUE]

pauseTimer(m) ==
    IF ~m.ws.isRunning THEN m ELSE [m EXCEPT !.ws.isPaused = TRUE]

resumeTimer(m) ==
    IF ~m.ws.isRunning THEN m ELSE [m EXCEPT !.ws.isPaused = FALSE]

\* recordLap that leaves the lap mark where it was
recordLapKeepingMark(m) ==
    IF m.ws.workoutMode # "stopwatch" \/ ~m.ws.isRunning THEN m
    ELSE
    LET lapTime == m.ws.elapsedTime
        m1 == [m EXCEPT !.ws.lapTimes =
                            Append(@, [lapNumber |-> Len(@) + 1, time |-> lapTime,
                                       lapDuration |-> lapTime - m.ws.lapStartTime])]
    IN  Emit(m1, "lap")

recordLap(m) ==
    IF m.ws.workoutMode # "stopwatch" \/ ~m.ws.isRunning THEN m
    ELSE
    LET lapNumber == Len(m.ws.lapTimes) + 1
        lapTime == m.ws.elapsedTime
        lapDuration == lapTime - m.ws.lapStartTime
        m1 == [m EXCEPT !.ws.lapTimes =
                            Append(@, [lapNumber |-> lapNumber, time |-> lapTime,
                                       lapDuration |-> lapDuration]),
                        !.ws.lapStartTime = lapTime]
    IN  Emit(m1, "lap")

\* faulty follow-up: the machine is reset only when a restart is asked for
completionCallbackLeavingComplete(m, shouldRestart) ==
    LET m1 == [Emit(m, "completionDialog") EXCEPT !.ws.isCompleting = FALSE]
    IN  IF shouldRestart
        THEN SetTimeout(resetTimer(m1), "restart", 0)
        ELSE m1

\* the callback completeWorkout passes to setTimeout(..., 1000); shouldRestart
\* is the answer to its confirm dialog
completionCallback(m, shouldRestart) ==
    LET m1 == [Emit(m, "completionDialog") EXCEPT !.ws.isCompleting = FALSE]
    IN  IF shouldRestart
        THEN SetTimeout(resetTimer(m1), "restart", 0)
        ELSE resetTimer(m1)

-----------------------------------------------------------------------------
(* The breathing timer engine *)

loadBreathingConfigFromForm(m, form) ==
    [m EXCEPT !.ws.breathingConfig =
        [breathIn |-> OrDefault(form.breathIn, DefaultBreathIn),
         inhaledHold |-> OrDefault(form.inhaledHold, 0),
         breathOut |-> OrDefault(form.breathOut, DefaultBreathOut),
         exhaledHold |-> OrDefault(form.exhaledHold, 0)]]

buildBreathingSequence(m) ==
    [m EXCEPT !.ws.breathingPhaseSequence = BreathingSequenceOf(m.ws.breathingConfig),
              !.ws.currentBreathingPhaseIndex = 0]

\* clearInterval(breathingIntervalId) and breathingIntervalId = null
clearBreathingInterval(m) ==
    IF m.ws.breathingIntervalId # Null
    THEN [m EXCEPT !.liveBreathingIntervals = @ - 1, !.ws.breathingIntervalId = Null]
    ELSE m

resetBreathingTimer(m) ==
    LET m1 == clearBreathingInterval(m)
        m2 == [m1 EXCEPT !.ws.breathingIsRunning = FALSE,
                         !.ws.breathingIsPaused = FALSE,
                         !.ws.breathingIsTransitioning = FALSE,
                         !.ws.currentBreathingPhase = "ready",
                         !.ws.currentBreathingPhaseIndex = 0,
                         !.ws.breathingTimeRemaining = 0,
                         !.remainder.breathingTimeRemaining = FALSE,
                         !.elements.breathingStartBtn = TRUE,
                         !.elements.breathingPauseBtn = FALSE]
    IN  MarkPending(m2, {"breathingSettle"})

loadBreathingPhase(m) ==
    LET m1 == IF \/ m.ws.currentBreathingPhaseIndex < 0
                 \/ m.ws.currentBreathingPhaseIndex >= Len(m.ws.breathingPhaseSequence)
                THEN [m EXCEPT !.ws.currentBreathingPhaseIndex = 0]
                ELSE m
    IN  IF m1.ws.currentBreathingPhaseIndex >= Len(m1.ws.breathingPhaseSequence)
        THEN resetBreathingTimer(m1)
        ELSE LET phase == PhaseAt(m1.ws.breathingPhaseSequence,
                                  m1.ws.currentBreathingPhaseIndex)
             IN  [m1 EXCEPT !.ws.currentBreathingPhase = phase.type,
                            !.ws.breathingTimeRemaining = phase.duration,
                            !.remainder.breathingTimeRemaining = FALSE]

startBreathingTimer(m, form) ==
    LET m1 == loadBreathingConfigFromForm(m, form)
    IN  IF m1.ws.breathingConfig.breathIn <= 0 /\ m1.ws.breathingConfig.breathOut <= 0
        THEN Emit(m1, "alert")
        ELSE
        LET m2 == buildBreathingSequence(m1)
        IN  IF Len(m2.ws.breathingPhaseSequence) = 0 THEN Emit(m2, "alert")
            ELSE
            LET m3 == [m2 EXCEPT !.ws.breathingIsRunning = TRUE,
                                 !.ws.breathingIsPaused = FALSE,
                                 !.ws.currentBreathingPhaseIndex = 0,
                                 !.ws.breathingIsTransitioning = FALSE]
                m4 == loadBreathingPhase(m3)
                m5 == [m4 EXCEPT !.elements.breathingStartBtn = FALSE,
                                 !.elements.breathingPauseBtn = TRUE,
                                 !.ws.breathingIntervalId = Handle,
                                 !.liveBreathingIntervals = @ + 1]
            IN  Emit(m5, "breathingStart")

\* the callback updateBreathingTimer passes to setTimeout(..., 500)
breathingSettleCallback(m, nextIndex) ==
    IF ~m.ws.breathingIsRunning THEN [m EXCEPT !.ws.breathingIsTransitioning = FALSE]
    ELSE loadBreathingPhase([m EXCEPT !.ws.currentBreathingPhaseIndex = nextIndex,
                                      !.ws.breathingIsTransitioning = FALSE])

\* breathingTimeRemaining <= 0, for the double that it is
BreathingTimeIsUp(m) ==
    m.ws.breathingTimeRemaining <= 0 /\ ~m.remainder.breathingTimeRemaining

\* breathingTimeRemaining -= 0.01, as SubtractTick
SubtractBreathingTick(m, leavesRemainder) ==
    [m EXCEPT !.ws.breathingTimeRemaining = @ - 1,
              !.remainder.breathingTimeRemaining =
                  m.ws.breathingTimeRemaining = 1
                  /\ ~m.remainder.breathingTimeRemaining
                  /\ leavesRemainder]

updateBreathingTimer(m, leavesRemainder) ==
    IF \/ ~m.ws.breathingIsRunning
       \/ m.ws.breathingIsPaused
       \/ m.ws.breathingIsTransitioning
    THEN m
    ELSE
    LET wasComplete == BreathingTimeIsUp(m)
        m1 == IF ~wasComplete THEN SubtractBreathingTick(m, leavesRemainder) ELSE m
        m2 == IF m1.ws.breathingTimeRemaining < 0
                THEN [m1 EXCEPT !.ws.breathingTimeRemaining = 0]
                ELSE m1
    IN  IF ~wasComplete /\ BreathingTimeIsUp(m2)
        THEN LET m3 == [m2 EXCEPT !.ws.breathingIsTransitioning = TRUE]
                 nextIndex == (m3.ws.currentBreathingPhaseIndex + 1)
                                 % Len(m3.ws.breathingPhaseSequence)
             IN  SetTimeout(Emit(m3, "breathingPhaseComplete"),
                            "breathingSettle", nextIndex)
        ELSE m2

pauseBreathingTimer(m) ==
    IF ~m.ws.breathingIsRunning THEN m ELSE [m EXCEPT !.ws.breathingIsPaused = TRUE]

resumeBreathingTimer(m) ==
    IF ~m.ws.breathingIsRunning THEN m ELSE [m EXCEPT !.ws.breathingIsPaused = FALSE]

-----------------------------------------------------------------------------
(* Handlers of the page's controls *)

updateFormVisibility(m) ==
    IF m.ws.workoutMode # "stopwatch" \/ ~m.ws.isRunning
    THEN [m EXCEPT !.elements.lapBtn = FALSE]
    ELSE m

\* the change handlers of the three mode radio buttons; confirmed is the
\* answer to the confirm dialog shown while a timer runs
changeMode(m, mode, confirmed) ==
    IF m.ws.isRunning /\ ~confirmed THEN m
    ELSE LET m1 == IF m.ws.isRunning THEN resetTimer(m) ELSE m
         IN  updateFormVisibility([m1 EXCEPT !.ws.workoutMode = mode])

switchTab(m, tab, confirmed) ==
    IF tab = "breathing"
    THEN IF m.ws.isRunning /\ ~confirmed THEN m
         ELSE LET m1 == IF m.ws.isRunning THEN resetTimer(m) ELSE m
              IN  [m1 EXCEPT !.ws.breathingMode = TRUE]
    ELSE IF m.ws.breathingIsRunning /\ ~confirmed THEN m
         ELSE LET m1 == IF m.ws.breathingIsRunning THEN resetBreathingTimer(m) ELSE m
              IN  [m1 EXCEPT !.ws.breathingMode = FALSE]

\* click handler of the start button: startTimer is deferred by 50 ms
startBtnClick(m) ==
    SetTimeout([m EXCEPT !.clicks.start = @ + 1], "startClick", 0)

pauseBtnClick(m) ==
    IF m.ws.isPaused THEN resumeTimer(m) ELSE pauseTimer(m)

resetBtnClick(m, confirmed) ==
    IF m.ws.isRunning
    THEN IF confirmed THEN resetTimer(m) ELSE m
    ELSE resetTimer(m)

breathingStartBtnClick(m) ==
    SetTimeout([m EXCEPT !.clicks.breathingStart = @ + 1], "breathingStartClick", 0)

breathingPauseBtnClick(m) ==
    IF m.ws.breathingIsPaused THEN resumeBreathingTimer(m) ELSE pauseBreathingTimer(m)

breathingResetBtnClick(m, confirmed) ==
    IF m.ws.breathingIsRunning
    THEN IF confirmed THEN resetBreathingTimer(m) ELSE m
    ELSE resetBreathingTimer(m)

-----------------------------------------------------------------------------
(* What is typed into the forms *)

NormalForm(setup, warmup, work, rest, longRest, sets, rounds) ==
    [setupDuration |-> setup, warmupDuration |-> warmup, workDuration |-> work,
     restDuration |-> rest, longRestDuration |-> longRest, setsPerRound |-> sets,
     numberOfRounds |-> rounds, numberOfPeople |-> 0]

HeadToHeadForm(setup, work, people, rounds) ==
    [setupDuration |-> setup, warmupDuration |-> 0, workDuration |-> work,
     restDuration |-> 0, longRestDuration |-> 0, setsPerRound |-> 0,
     numberOfRounds |-> rounds, numberOfPeople |-> people]

BreathingForm(breathIn, inhaledHold, breathOut, exhaledHold) ==
    [breathIn |-> breathIn, inhaledHold |-> inhaledHold, breathOut |-> breathOut,
     exhaledHold |-> exhaledHold]

\* contents of the interval form at a start of the running page: every
\* optional phase, none of them, rests only, long rests only, negative
\* optional durations, and the three rejected shapes
NormalForms ==
    { NormalForm(1, 1, MaxDuration, 1, 1, MaxCount, MaxCount),
      NormalForm(-1, 0, 1, 0, 0, 0, 0),
      NormalForm(-1, 0, 1, 1, 0, MaxCount, 1),
      NormalForm(-1, 0, 1, 0, 1, 1, MaxCount),
      NormalForm(-1, -1, 1, -1, -1, MaxCount, MaxCount),
      NormalForm(1, 0, -1, 0, 0, 1, 1),
      NormalForm(1, 0, 1, 0, 0, -1, 1),
      NormalForm(1, 0, 1, 0, 0, 1, -1) }

\* contents of the head-to-head form at a start of the running page
HeadToHeadForms ==
    { HeadToHeadForm(1, 1, MaxCount, MaxCount),
      HeadToHeadForm(-1, MaxDuration, 1, 0),
      HeadToHeadForm(1, -1, 1, 1),
      HeadToHeadForm(1, 1, -1, 1),
      HeadToHeadForm(1, 1, 1, -1) }

\* contents of the breathing form at a start of the running page
BreathingForms ==
    { BreathingForm(1, -1, 1, -1),
      BreathingForm(1, 1, MaxDuration, 1),
      BreathingForm(-1, 1, 1, -1),
      BreathingForm(1, -1, -1, -1),
      BreathingForm(-1, -1, -1, -1) }

\* values typed into a duration field and into a count field when a start
\* is looked at on its own
StartDurations == {-1, 0, 1, MaxBuildDuration}
StartCounts == {-1, 0, 1, MaxBuildCount}

\* the examples of the specification's section 8
ExampleNormalForm == NormalForm(10, 0, 30, 10, 60, 3, 2)
ExampleHeadToHeadForm == HeadToHeadForm(5, 20, 3, 2)

WideNormalForms ==
    { NormalForm(setup, warmup, work, rest, longRest, sets, rounds) :
        setup \in StartDurations, warmup \in StartDurations,
        work \in StartDurations, rest \in StartDurations,
        longRest \in StartDurations, sets \in StartCounts,
        rounds \in StartCounts }
    \cup { ExampleNormalForm }

WideHeadToHeadForms ==
    { HeadToHeadForm(setup, work, people, rounds) :
        setup \in StartDurations, work \in StartDurations,
        people \in StartCounts, rounds \in StartCounts }
    \cup { ExampleHeadToHeadForm }

WideBreathingForms ==
    { BreathingForm(breathIn, inhaledHold, breathOut, exhaledHold) :
        breathIn \in StartDurations, inhaledHold \in StartDurations,
        breathOut \in StartDurations, exhaledHold \in StartDurations }

\* the form startTimer reads in the current mode (none in stopwatch mode)
FormsOf(mode, normalForms, headToHeadForms) ==
    CASE mode = "normal" -> normalForms
      [] mode = "headToHead" -> headToHeadForms
      [] mode = "stopwatch" -> { NormalForm(0, 0, 0, 0, 0, 0, 0) }

Modes == {"normal", "headToHead", "stopwatch"}

-----------------------------------------------------------------------------
(* The running page *)

Init ==
    /\ workoutState = InitialWorkoutState
    /\ elements = InitialElements
    /\ timers = << >>
    /\ liveIntervals = 0
    /\ liveBreathingIntervals = 0
    /\ emitted = {}
    /\ completesSinceLoad = 0
    /\ remainder = InitialRemainder
    /\ clicks = InitialClicks

\* Entry with pending callback i taken out of the queue to run
Fired(i) == [Entry EXCEPT !.timers = RemoveAt(@, i)]

\* a tick driver calls updateTimer
Tick ==
    /\ liveIntervals > 0
    /\ ~(/\ workoutState.workoutMode = "stopwatch"
         /\ workoutState.elapsedTime >= MaxStopwatchTicks)
    /\ \E leavesRemainder \in BOOLEAN : Becomes(updateTimer(Entry, leavesRemainder))

\* pending callback i is a settle callback and runs
SettleRuns(i) ==
    /\ timers[i].kind = "settle"
    /\ CanFire(i)
    /\ Becomes(settleCallback(Fired(i), timers[i].nextIndex))

SettleFires == \E i \in 1..Len(timers) : SettleRuns(i)

\* pending callback i is a completion follow-up and runs; the user answers
\* its dialog
CompletionRuns(i) ==
    /\ timers[i].kind = "completion"
    /\ CanFire(i)
    /\ \/ Becomes(completionCallback(Fired(i), FALSE))
       \/ /\ clicks.restart < MaxRestarts
          /\ Becomes(completionCallback(
                 [Fired(i) EXCEPT !.clicks.restart = @ + 1], TRUE))

CompletionFires == \E i \in 1..Len(timers) : CompletionRuns(i)

RestartFires ==
    \E i \in 1..Len(timers) :
        /\ timers[i].kind = "restart"
        /\ CanFire(i)
        /\ \E form \in FormsOf(workoutState.workoutMode, NormalForms, HeadToHeadForms) :
              Becomes(startTimer(Fired(i), form))

StartClickFires ==
    \E i \in 1..Len(timers) :
        /\ timers[i].kind = "startClick"
        /\ CanFire(i)
        /\ \E form \in FormsOf(workoutState.workoutMode, NormalForms, HeadToHeadForms) :
              Becomes(startTimer(Fired(i), form))

ClickStart ==
    /\ ~workoutState.breathingMode
    /\ elements.startBtn
    /\ clicks.start < MaxStartClicks
    /\ Becomes(startBtnClick(Entry))

ClickPause ==
    /\ ~workoutState.breathingMode
    /\ elements.pauseBtn
    /\ Becomes(pauseBtnClick(Entry))

ClickLap ==
    /\ ~workoutState.breathingMode
    /\ elements.lapBtn
    /\ Len(workoutState.lapTimes) < MaxLaps
    /\ Becomes(recordLap(Entry))

ClickReset ==
    /\ ~workoutState.breathingMode
    /\ \E confirmed \in BOOLEAN : Becomes(resetBtnClick(Entry, confirmed))

ChangeMode ==
    /\ ~workoutState.breathingMode
    /\ \E mode \in Modes \ {workoutState.workoutMode} :
         \E confirmed \in BOOLEAN : Becomes(changeMode(Entry, mode, confirmed))

SwitchTab ==
    \E confirmed \in BOOLEAN :
        Becomes(switchTab(Entry,
                          IF workoutState.breathingMode THEN "workout" ELSE "breathing",
                          confirmed))

BreathingTick ==
    /\ liveBreathingIntervals > 0
    /\ \E leavesRemainder \in BOOLEAN :
          Becomes(updateBreathingTimer(Entry, leavesRemainder))

BreathingSettleFires ==
    \E i \in 1..Len(timers) :
        /\ timers[i].kind = "breathingSettle"
        /\ CanFire(i)
        /\ Becomes(breathingSettleCallback(Fired(i), timers[i].nextIndex))

BreathingStartClickFires ==
    \E i \in 1..Len(timers) :
        /\ timers[i].kind = "breathingStartClick"
        /\ CanFire(i)
        /\ \E form \in BreathingForms : Becomes(startBreathingTimer(Fired(i), form))

ClickBreathingStart ==
    /\ workoutState.breathingMode
    /\ elements.breathingStartBtn
    /\ clicks.breathingStart < MaxBreathingStartClicks
    /\ Becomes(breathingStartBtnClick(Entry))

ClickBreathingPause ==
    /\ workoutState.breathingMode
    /\ elements.breathingPauseBtn
    /\ Becomes(breathingPauseBtnClick(Entry))

ClickBreathingReset ==
    /\ workoutState.breathingMode
    /\ \E confirmed \in BOOLEAN : Becomes(breathingResetBtnClick(Entry, confirmed))

\* the workout tab of the page: the workout timer in its three modes
Next ==
    \/ Tick
    \/ SettleFires
    \/ CompletionFires
    \/ RestartFires
    \/ StartClickFires
    \/ ClickStart
    \/ ClickPause
    \/ ClickLap
    \/ ClickReset
    \/ ChangeMode

Spec == Init /\ [][Next]_vars

\* the breathing tab of the page, reached from the workout tab
NextBreathing ==
    \/ SwitchTab
    \/ ClickBreathingStart
    \/ BreathingStartClickFires
    \/ BreathingTick
    \/ BreathingSettleFires
    \/ ClickBreathingPause
    \/ ClickBreathingReset

SpecBreathing == Init /\ [][NextBreathing]_vars

\* The running page with its scheduling: every setTimeout callback runs in
\* the end, a live interval keeps calling updateTimer, so that a timer which
\* is unpaused again and again is ticked while unpaused, and the user does
\* not leave a timer paused forever.
Resume == ClickPause /\ workoutState.isPaused

SpecFair ==
    /\ Spec
    /\ SF_vars(Tick)
    /\ WF_vars(SettleFires)
    /\ WF_vars(CompletionFires)
    /\ WF_vars(RestartFires)
    /\ WF_vars(StartClickFires)
    /\ WF_vars(Resume)

-----------------------------------------------------------------------------
(* A start looked at on its own: one call of startTimer or of              *)
(* startBreathingTimer from the ready state, over every form content       *)

InitStart ==
    /\ \E mode \in Modes, tab \in BOOLEAN :
          workoutState = [InitialWorkoutState EXCEPT !.workoutMode = mode,
                                                     !.breathingMode = tab]
    /\ elements = InitialElements
    /\ timers = << >>
    /\ liveIntervals = 0
    /\ liveBreathingIntervals = 0
    /\ emitted = {}
    /\ completesSinceLoad = 0
    /\ remainder = InitialRemainder
    /\ clicks = InitialClicks

StartFromReady ==
    /\ ~workoutState.breathingMode
    /\ clicks.start = 0
    /\ \E form \in FormsOf(workoutState.workoutMode, WideNormalForms,
                           WideHeadToHeadForms) :
          Becomes(startTimer([Entry EXCEPT !.clicks.start = 1], form))

StartBreathingFromReady ==
    /\ workoutState.breathingMode
    /\ clicks.breathingStart = 0
    /\ \E form \in WideBreathingForms :
          Becomes(startBreathingTimer([Entry EXCEPT !.clicks.breathingStart = 1], form))

NextStart ==
    \/ StartFromReady
    \/ StartBreathingFromReady

SpecStart == InitStart /\ [][NextStart]_vars

-----------------------------------------------------------------------------
(* Properties *)

Positive(n) == IF n > 0 THEN n ELSE 0
Count(b) == IF b THEN 1 ELSE 0
TypeCount(sequence, type) ==
    Cardinality({ i \in 1..Len(sequence) : sequence[i].type = type })

\* The interval list of the specification's section 4.1, by position:
\* [setup?] [warmup?], then per round the sets (work, with a rest after
\* every set but the last when rests are on) and a long rest after every
\* round but the last when long rests are on.
IntervalLeading(c) == Count(c.setupDuration > 0) + Count(c.warmupDuration > 0)
IntervalBlock(c) ==
    IF c.restDuration > 0 THEN 2 * c.setsPerRound - 1 ELSE c.setsPerRound
IntervalStride(c) == IntervalBlock(c) + Count(c.longRestDuration > 0)
IntervalLength(c) ==
    IntervalLeading(c) + c.numberOfRounds * IntervalBlock(c)
        + (c.numberOfRounds - 1) * Count(c.longRestDuration > 0)
IntervalPhase(c, i) ==
    IF i <= IntervalLeading(c)
    THEN IF i = 1 /\ c.setupDuration > 0
           THEN Phase("setup", c.setupDuration, 0, 0, 0, 0)
           ELSE Phase("warmup", c.warmupDuration, 0, 0, 0, 0)
    ELSE LET j == i - IntervalLeading(c) - 1
             round == (j \div IntervalStride(c)) + 1
             k == j % IntervalStride(c)
         IN  IF k = IntervalBlock(c)
             THEN Phase("longRest", c.longRestDuration, round, 0, 0, 0)
             ELSE IF c.restDuration > 0
             THEN IF k % 2 = 0
                    THEN Phase("work", c.workDuration, round, (k \div 2) + 1, 0, 0)
                    ELSE Phase("rest", c.restDuration, round, (k + 1) \div 2,
                               ((k + 1) \div 2) + 1, 0)
             ELSE Phase("work", c.workDuration, round, k + 1, 0, 0)

\* the state right after a start that built an interval sequence
IntervalBuilt ==
    /\ workoutState.workoutMode = "normal"
    /\ "sequenceBuilt" \in emitted

\* the state right after a start that built a head-to-head sequence
HeadToHeadBuilt ==
    /\ workoutState.workoutMode = "headToHead"
    /\ "sequenceBuilt" \in emitted

\* C1: for a validated interval configuration the built list is exactly
\* [setup iff setupDuration > 0], [warmup iff warmupDuration > 0], then for
\* round 1..R the works of sets 1..S, each but the last followed by
\* rest(round, set, nextSet = set + 1) iff restDuration > 0, and a
\* longRest(round) after every round but the last iff longRestDuration > 0.
C1_IntervalOrdering ==
    IntervalBuilt =>
        LET c == workoutState.config
            sequence == workoutState.phaseSequence
        IN  /\ c.workDuration > 0 /\ c.setsPerRound >= 1 /\ c.numberOfRounds >= 1
            /\ Len(sequence) = IntervalLength(c)
            /\ \A i \in 1..Len(sequence) : sequence[i] = IntervalPhase(c, i)

C1_Witness ==
    /\ IntervalBuilt
    /\ workoutState.config.setsPerRound >= 2
    /\ workoutState.config.numberOfRounds >= 2
    /\ \A type \in {"setup", "warmup", "work", "rest", "longRest"} :
          TypeCount(workoutState.phaseSequence, type) >= 1

\* C2: with restDuration > 0 the built interval list holds exactly R*S work
\* phases and R*(S-1) rest phases, at most one setup and one warmup, and
\* R-1 long rests when longRestDuration > 0, none otherwise.
C2_IntervalCounts ==
    (IntervalBuilt /\ workoutState.config.restDuration > 0) =>
        LET c == workoutState.config
            sequence == workoutState.phaseSequence
        IN  /\ TypeCount(sequence, "work") = c.numberOfRounds * c.setsPerRound
            /\ TypeCount(sequence, "rest") = c.numberOfRounds * (c.setsPerRound - 1)
            /\ TypeCount(sequence, "setup") <= 1
            /\ TypeCount(sequence, "warmup") <= 1
            /\ TypeCount(sequence, "longRest") =
                  IF c.longRestDuration > 0 THEN c.numberOfRounds - 1 ELSE 0

C2_Witness ==
    /\ IntervalBuilt
    /\ workoutState.config.restDuration > 0
    /\ workoutState.config.longRestDuration > 0
    /\ workoutState.config.setsPerRound >= 3
    /\ workoutState.config.numberOfRounds >= 3
    /\ TypeCount(workoutState.phaseSequence, "rest") >= 6

\* the total of the durations of a list, taken from its last element back
RECURSIVE TotalFromEnd(_, _)
TotalFromEnd(sequence, n) ==
    IF n = 0 THEN 0 ELSE sequence[n].duration + TotalFromEnd(sequence, n - 1)

\* after a build, totalWorkoutTime is the sum of the durations of the phases
\* of phaseSequence: for an interval run setup + warmup + R*S*work +
\* R*(S-1)*rest + (R-1)*longRest over the durations that are on, for a
\* head-to-head run setup + R*P*work
TotalIsSumOfDurations ==
    LET c == workoutState.config
        sequence == workoutState.phaseSequence
    IN  /\ workoutState.totalWorkoutTime = TotalFromEnd(sequence, Len(sequence))
        /\ IntervalBuilt =>
              workoutState.totalWorkoutTime =
                  Positive(c.setupDuration) + Positive(c.warmupDuration)
                  + c.numberOfRounds * c.setsPerRound * c.workDuration
                  + c.numberOfRounds * (c.setsPerRound - 1) * Positive(c.restDuration)
                  + (c.numberOfRounds - 1) * Positive(c.longRestDuration)
        /\ HeadToHeadBuilt =>
              workoutState.totalWorkoutTime =
                  Positive(c.setupDuration)
                  + c.numberOfRounds * c.numberOfPeople * c.workDuration

\* C3 as stated: totalWorkoutTime is the exact sum of the durations of the
\* built phases, and setup=10, warmup=0, work=30, rest=10, longRest=60,
\* sets=3, rounds=2 gives 270.
C3_TotalDurationExample270 ==
    /\ TotalIsSumOfDurations
    /\ (IntervalBuilt /\ workoutState.config = ExampleNormalForm) =>
          workoutState.totalWorkoutTime = 270

\* C3 as amended: totalWorkoutTime is the exact sum of the durations of the
\* built phases, and the example configuration gives 290 (each of its two
\* rounds is 30+10+30+10+30 = 110).
C3_TotalDuration ==
    /\ TotalIsSumOfDurations
    /\ (IntervalBuilt /\ workoutState.config = ExampleNormalForm) =>
          workoutState.totalWorkoutTime = 290

C3_Witness ==
    /\ IntervalBuilt
    /\ workoutState.config = ExampleNormalForm
    /\ workoutState.totalWorkoutTime = 290
    /\ Len(workoutState.phaseSequence) = 12

\* the head-to-head list of the specification's section 4.1, by position
HeadToHeadLeading(c) == Count(c.setupDuration > 0)
HeadToHeadLength(c) == HeadToHeadLeading(c) + c.numberOfRounds * c.numberOfPeople
HeadToHeadPhase(c, i) ==
    IF i <= HeadToHeadLeading(c)
    THEN Phase("setup", c.setupDuration, 0, 0, 0, 0)
    ELSE LET j == i - HeadToHeadLeading(c) - 1
         IN  Phase("work", c.workDuration, (j \div c.numberOfPeople) + 1, 0, 0,
                   (j % c.numberOfPeople) + 1)

\* C4: for a validated head-to-head configuration the built list is an
\* optional setup followed by exactly R*P work phases, round-major with
\* person 1..P in each round, and no rest, longRest or warmup phase; people 3,
\* rounds 2, work 20, setup 5 gives 7 phases, total 125, persons 1,2,3,1,2,3.
C4_HeadToHeadOrdering ==
    HeadToHeadBuilt =>
        LET c == workoutState.config
            sequence == workoutState.phaseSequence
        IN  /\ c.workDuration > 0 /\ c.numberOfPeople >= 1 /\ c.numberOfRounds >= 1
            /\ Len(sequence) = HeadToHeadLength(c)
            /\ \A i \in 1..Len(sequence) : sequence[i] = HeadToHeadPhase(c, i)
            /\ TypeCount(sequence, "work") = c.numberOfRounds * c.numberOfPeople
            /\ \A type \in {"rest", "longRest", "warmup"} : TypeCount(sequence, type) = 0
            /\ c = ExampleHeadToHeadForm =>
                  /\ Len(sequence) = 7
                  /\ workoutState.totalWorkoutTime = 125
                  /\ [i \in 2..7 |-> sequence[i].person] =
                        (2 :> 1 @@ 3 :> 2 @@ 4 :> 3 @@ 5 :> 1 @@ 6 :> 2 @@ 7 :> 3)
                  /\ [i \in 2..7 |-> sequence[i].round] =
                        (2 :> 1 @@ 3 :> 1 @@ 4 :> 1 @@ 5 :> 2 @@ 6 :> 2 @@ 7 :> 2)

C4_Witness ==
    /\ HeadToHeadBuilt
    /\ workoutState.config = ExampleHeadToHeadForm
    /\ Len(workoutState.phaseSequence) = 7

\* C5: every phase of a sequence held by the workout timer or by the
\* breathing timer has a duration above 0.
C5_PositiveDurations ==
    /\ \A i \in 1..Len(workoutState.phaseSequence) :
          workoutState.phaseSequence[i].duration > 0
    /\ \A i \in 1..Len(workoutState.breathingPhaseSequence) :
          workoutState.breathingPhaseSequence[i].duration > 0

\* a run started from a form whose optional durations are 0 or negative
C5_Witness ==
    \/ /\ workoutState.isRunning
       /\ workoutState.workoutMode = "normal"
       /\ workoutState.config.warmupDuration < 0
       /\ workoutState.config.restDuration = 0
       /\ workoutState.config.longRestDuration < 0
       /\ workoutState.config.setsPerRound >= 2
       /\ workoutState.config.numberOfRounds >= 2
       /\ TypeCount(workoutState.phaseSequence, "work") = Len(workoutState.phaseSequence)
    \/ /\ workoutState.breathingIsRunning
       /\ workoutState.breathingConfig.inhaledHold < 0
       /\ workoutState.breathingConfig.breathOut < 0
       /\ Len(workoutState.breathingPhaseSequence) = 1

\* C6: a successful start of an interval or head-to-head run leaves
\* currentPhaseIndex = 0, elapsedTime = 0, isRunning, not isPaused,
\* timeRemaining at exactly the duration of phase 0, and currentPhase,
\* currentRound, currentSet and currentPerson at the fields of phase 0.
C6_StartState ==
    ("start" \in emitted /\ workoutState.workoutMode # "stopwatch") =>
        /\ Len(workoutState.phaseSequence) > 0
        /\ LET phase == PhaseAt(workoutState.phaseSequence, 0)
           IN  /\ workoutState.currentPhaseIndex = 0
               /\ workoutState.elapsedTime = 0
               /\ workoutState.isRunning
               /\ ~workoutState.isPaused
               /\ workoutState.timeRemaining = phase.duration
               /\ ~remainder.timeRemaining
               /\ workoutState.currentPhase = phase.type
               /\ workoutState.currentRound = phase.round
               /\ workoutState.currentSet = phase.set
               /\ workoutState.currentPerson = phase.person

\* a head-to-head run just started on its first work phase, by the second
\* start call of the page
C6_Witness ==
    /\ "start" \in emitted
    /\ workoutState.workoutMode = "headToHead"
    /\ workoutState.currentPhase = "work"
    /\ workoutState.currentPerson = 1
    /\ workoutState.timeRemaining = MaxDuration
    /\ clicks.start = 2
    /\ timers = << >>

\* the step is a tick that the workout timer accepts with time left
AcceptedTickWithTimeLeft ==
    /\ Tick
    /\ workoutState.isRunning
    /\ ~workoutState.isPaused
    /\ ~workoutState.isTransitioning
    /\ workoutState.workoutMode # "stopwatch"
    /\ ~TimeIsUp(Machine)

\* C7: every tick accepted by a running, unpaused, non-transitioning workout
\* with timeRemaining above 0 takes one tick off timeRemaining and adds one
\* tick to elapsedTime, and timeRemaining is never below 0.
C7_TickByOneUnit ==
    /\ [](workoutState.timeRemaining >= 0)
    /\ [][AcceptedTickWithTimeLeft =>
            /\ workoutState'.timeRemaining = workoutState.timeRemaining - 1
            /\ workoutState'.elapsedTime = workoutState.elapsedTime + 1]_vars

\* the workout timer sits on a phase whose time is up
AtPhaseBoundary ==
    /\ workoutState.isRunning
    /\ workoutState.workoutMode # "stopwatch"
    /\ TimeIsUp(Machine)

\* C8: at every phase boundary the phase-complete cue and the scheduling of
\* the settle callback happen exactly once: once when the time of the loaded
\* phase is up, both together, and never again on the ticks that arrive
\* while timeRemaining is already 0.
C8_PhaseCompleteOnce ==
    /\ [](/\ completesSinceLoad <= 1
          /\ AtPhaseBoundary => completesSinceLoad = 1)
    /\ [][("phaseComplete" \in emitted') =>
            /\ completesSinceLoad' = 1
            /\ timers' = Append(timers, Timer("settle",
                                              workoutState.currentPhaseIndex + 1))
            /\ workoutState'.isTransitioning]_vars
    /\ [][(Tick /\ AtPhaseBoundary) =>
            /\ "phaseComplete" \notin emitted'
            /\ UNCHANGED << workoutState, timers, completesSinceLoad >>]_vars

\* the second boundary of a run: one cue since the phase was loaded, one
\* settle callback pending
C8_Witness ==
    /\ AtPhaseBoundary
    /\ workoutState.isTransitioning
    /\ workoutState.currentPhaseIndex = 1
    /\ completesSinceLoad = 1
    /\ Len(timers) = 1
    /\ timers[1] = Timer("settle", 2)
    /\ emitted = {}

\* C9: a settle callback that was pending when resetTimer ran never takes
\* effect: when it runs it changes nothing of the workout state, emits no
\* cue and schedules nothing, whatever was done after the reset.
C9_ResetCancelsSettle ==
    [][\A i \in 1..Len(timers) :
          (timers[i].stale /\ SettleRuns(i)) =>
              /\ workoutState' = workoutState
              /\ emitted' = {}
              /\ timers' = RemoveAt(timers, i)]_vars

\* C10: after resetTimer has returned, a completion follow-up of the run that
\* was reset produces no dialog and no cue and changes nothing.
C10_ResetCancelsFollowUp ==
    [][\A i \in 1..Len(timers) :
          (timers[i].stale /\ CompletionRuns(i)) =>
              /\ workoutState' = workoutState
              /\ emitted' = {}
              /\ timers' = RemoveAt(timers, i)]_vars

\* the step calls resetTimer: from the reset button, from a mode change of
\* a running timer, or from the completion follow-up
ResetTimerRuns ==
    \/ Becomes(resetTimer(Entry))
    \/ CompletionFires
    \/ ChangeMode /\ workoutState.isRunning /\ ~workoutState'.isRunning

\* the ready state of the workout timer
ReadyState ==
    /\ ~workoutState.isRunning
    /\ ~workoutState.isPaused
    /\ ~workoutState.isTransitioning
    /\ ~workoutState.isCompleting
    /\ workoutState.currentPhase = "ready"
    /\ workoutState.currentPhaseIndex = 0
    /\ workoutState.currentRound = 0
    /\ workoutState.currentSet = 0
    /\ workoutState.nextSet = 0
    /\ workoutState.currentPerson = 0
    /\ workoutState.timeRemaining = 0
    /\ ~remainder.timeRemaining
    /\ workoutState.elapsedTime = 0
    /\ workoutState.lapStartTime = 0
    /\ workoutState.lapTimes = << >>
    /\ workoutState.intervalId = Null

\* C11: from any state and in any mode, resetTimer leaves the machine ready:
\* the four flags false, currentPhase 'ready', index, round, set, nextSet and
\* person 0, timeRemaining, elapsedTime and lapStartTime 0, no laps,
\* intervalId null.
C11_ResetLeavesReady ==
    [][ResetTimerRuns => ReadyState']_vars

\* a reset that came during a settle delay
C11_Witness ==
    /\ ReadyState
    /\ \E i \in 1..Len(timers) : timers[i].kind = "settle" /\ timers[i].stale

\* C12: resetTimer discards the sequence of the run: after it phaseSequence
\* is empty and totalWorkoutTime is 0.
C12_ResetDiscardsSequence ==
    [][ResetTimerRuns =>
         /\ workoutState'.phaseSequence = << >>
         /\ workoutState'.totalWorkoutTime = 0]_vars

\* the step is a settle callback that finds the workout running, and so
\* advances the index and loads the next phase or completes the workout
SettleAdvances == SettleFires /\ workoutState.isRunning

\* C13: the phase-complete cue of phase i comes before phase i+1 is loaded,
\* and in between isTransitioning is true, currentPhaseIndex is still i and
\* timeRemaining is 0; a tick never changes the index, and the index goes up
\* only in a settle callback.
C13_CueBeforeLoad ==
    /\ [][Tick => workoutState'.currentPhaseIndex = workoutState.currentPhaseIndex]_vars
    /\ [][workoutState'.currentPhaseIndex > workoutState.currentPhaseIndex
            => SettleAdvances]_vars
    /\ [][SettleAdvances =>
            /\ completesSinceLoad = 1
            /\ workoutState.isTransitioning
            /\ TimeIsUp(Machine)
            /\ workoutState'.currentPhaseIndex = workoutState.currentPhaseIndex + 1]_vars

\* C14: a tick delivered while the workout is not running, is paused or is
\* transitioning changes nothing (timeRemaining, elapsedTime, index, flags,
\* pending callbacks) and emits no cue.
C14_RejectedTickChangesNothing ==
    [][(/\ Tick
        /\ \/ ~workoutState.isRunning
           \/ workoutState.isPaused
           \/ workoutState.isTransitioning) =>
          /\ UNCHANGED << workoutState, elements, timers, liveIntervals,
                          remainder, completesSinceLoad >>
          /\ emitted' = {}]_vars

\* a paused run with time left and its tick driver live
C14_Witness ==
    /\ workoutState.isRunning
    /\ workoutState.isPaused
    /\ ~workoutState.isTransitioning
    /\ workoutState.timeRemaining >= 1
    /\ workoutState.elapsedTime >= 1
    /\ liveIntervals >= 1

\* pending callback i is a settle callback that runs, finds the workout
\* running and advances the index past the last phase
SettleRunsPastEnd(i) ==
    /\ SettleRuns(i)
    /\ workoutState.isRunning
    /\ timers[i].nextIndex >= Len(workoutState.phaseSequence)

\* C15: when the settle callback advances the index past the last phase the
\* workout completes: isRunning false, currentPhase 'complete', the tick
\* interval cleared, the completion cue emitted; later ticks change nothing,
\* and the cue is emitted once per run, by the step that ends the run.
C15_CompletesPastLastPhase ==
    /\ [][\A i \in 1..Len(timers) :
            SettleRunsPastEnd(i) =>
                /\ ~workoutState'.isRunning
                /\ workoutState'.currentPhase = "complete"
                /\ workoutState'.intervalId = Null
                /\ "complete" \in emitted']_vars
    /\ [][(Tick /\ workoutState.currentPhase = "complete"
                 /\ ~workoutState.isRunning) =>
            UNCHANGED workoutState]_vars
    /\ [][("complete" \in emitted') =>
            workoutState.isRunning /\ ~workoutState'.isRunning]_vars

\* an interval or head-to-head run is under way
RunUnderWay ==
    workoutState.isRunning /\ workoutState.workoutMode # "stopwatch"

\* the run has reached the completed state, or resetTimer has ended it
RunCompletedOrReset ==
    workoutState.currentPhase \in {"complete", "ready"}

\* every run that is not reset reaches the completed state
RunEventuallyCompletes == RunUnderWay ~> RunCompletedOrReset

\* C16: with ticks and settle callbacks delivered fairly, a started interval
\* or head-to-head run that is not reset and not left paused forever reaches
\* the completed state, and it gets there by one transition per phase: every
\* settle callback that advances the run moves the index by exactly one.
C16_RunCompletes ==
    /\ RunEventuallyCompletes
    /\ [][SettleAdvances =>
            workoutState'.currentPhaseIndex = workoutState.currentPhaseIndex + 1]_vars

\* recordLap runs on a running stopwatch
LapOnRunningStopwatch ==
    /\ ClickLap
    /\ workoutState.workoutMode = "stopwatch"
    /\ workoutState.isRunning

\* the record recordLap appends in the current state
NextLapRecord ==
    [lapNumber |-> Len(workoutState.lapTimes) + 1,
     time |-> workoutState.elapsedTime,
     lapDuration |-> workoutState.elapsedTime - workoutState.lapStartTime]

\* cumulative time of the lap before lap k (0 before the first)
PreviousLapTime(laps, k) == IF k = 1 THEN 0 ELSE laps[k - 1].time

LapsAreDifferences(laps) ==
    \A k \in 1..Len(laps) :
        /\ laps[k].lapNumber = k
        /\ laps[k].lapDuration = laps[k].time - PreviousLapTime(laps, k)

\* the stopwatch of the example: started from ready, its elapsedTime read
\* at 1230, 2700 and 4050 ticks of 10 ms
ElapsedAt(m, ticks) == [m EXCEPT !.ws.elapsedTime = ticks]

ReadyStopwatch ==
    [ws |-> [InitialWorkoutState EXCEPT !.workoutMode = "stopwatch"],
     elements |-> InitialElements, timers |-> << >>, liveIntervals |-> 0,
     liveBreathingIntervals |-> 0, emitted |-> {}, completesSinceLoad |-> 0,
     remainder |-> InitialRemainder, clicks |-> InitialClicks]

ExampleLaps ==
    LET lap1 == recordLap(ElapsedAt(startStopwatch(ReadyStopwatch), 1230))
        lap2 == recordLap(ElapsedAt(lap1, 2700))
        lap3 == recordLap(ElapsedAt(lap2, 4050))
    IN  lap3.ws.lapTimes

\* the laps are differences and the lap mark is the cumulative time of the
\* last lap (0 when there is none)
LapsInStep ==
    /\ LapsAreDifferences(workoutState.lapTimes)
    /\ workoutState.lapStartTime =
          PreviousLapTime(workoutState.lapTimes, Len(workoutState.lapTimes) + 1)

\* startStopwatch runs in the ready state
StopwatchStartsFromReady ==
    /\ StartClickFires
    /\ ReadyState
    /\ workoutState.workoutMode = "stopwatch"

\* a tick, a lap, a pause or a resume of the stopwatch
StopwatchTickOrLap ==
    /\ Tick \/ ClickLap \/ ClickPause
    /\ workoutState.workoutMode = "stopwatch"

\* C17: recordLap on a running stopwatch appends the record (count + 1,
\* elapsedTime, elapsedTime - lap mark) and moves the lap mark to
\* elapsedTime; a stopwatch started from ready has, after any sequence of
\* ticks and laps, lap k numbered k with a duration equal to its cumulative
\* time minus that of lap k-1 (0 before the first lap); laps at 12.3 s,
\* 27.0 s and 40.5 s have the durations 12.3 s, 14.7 s and 13.5 s.
C17_LapRecords ==
    /\ [][LapOnRunningStopwatch =>
            /\ workoutState'.lapTimes = Append(workoutState.lapTimes, NextLapRecord)
            /\ workoutState'.lapStartTime = workoutState.elapsedTime]_vars
    /\ [][StopwatchStartsFromReady => workoutState'.isRunning /\ LapsInStep']_vars
    /\ [][(StopwatchTickOrLap /\ LapsInStep) => LapsInStep']_vars
    /\ ExampleLaps = << [lapNumber |-> 1, time |-> 1230, lapDuration |-> 1230],
                        [lapNumber |-> 2, time |-> 2700, lapDuration |-> 1470],
                        [lapNumber |-> 3, time |-> 4050, lapDuration |-> 1350] >>

C17_Witness ==
    /\ workoutState.workoutMode = "stopwatch"
    /\ workoutState.isRunning
    /\ Len(workoutState.lapTimes) = 2
    /\ workoutState.lapTimes[1].time = 1
    /\ workoutState.lapTimes[2].time = 2
    /\ LapsInStep

\* recordLap is called outside the running state of the stopwatch
LapOutsideRunning ==
    /\ ClickLap
    /\ \/ workoutState.workoutMode # "stopwatch"
       \/ ~workoutState.isRunning
       \/ workoutState.isPaused

\* C18: recordLap called while the stopwatch is paused or not started, or
\* while the mode is not stopwatch, leaves the lap list and the lap mark
\* unchanged.
C18_LapOnlyWhileRunning ==
    [][LapOutsideRunning =>
          UNCHANGED << workoutState.lapTimes, workoutState.lapStartTime >>]_vars

\* updateTimer runs on a stopwatch that is running, not paused and not in
\* a transition
AcceptedStopwatchTick ==
    /\ Tick
    /\ workoutState.workoutMode = "stopwatch"
    /\ workoutState.isRunning
    /\ ~workoutState.isPaused
    /\ ~workoutState.isTransitioning

\* C19: an accepted tick in stopwatch mode adds one tick unit to elapsedTime
\* and changes nothing else (timeRemaining, currentPhaseIndex, currentPhase,
\* isTransitioning, isRunning and the laps included); it emits no
\* phase-complete or completion cue and schedules nothing, so no number of
\* ticks takes the stopwatch to the completed state.
C19_StopwatchTickFrame ==
    [][AcceptedStopwatchTick =>
          /\ workoutState' = [workoutState EXCEPT !.elapsedTime = @ + 1]
          /\ emitted' = {}
          /\ UNCHANGED << elements, timers, liveIntervals, completesSinceLoad,
                          remainder >>]_vars

C19_Witness ==
    /\ workoutState.workoutMode = "stopwatch"
    /\ workoutState.isRunning
    /\ ~workoutState.isPaused
    /\ workoutState.elapsedTime = MaxStopwatchTicks
    /\ workoutState.currentPhase = "ready"
    /\ workoutState.timeRemaining = 0
    /\ Len(workoutState.lapTimes) = 1

\* a breathing settle callback runs while the breathing timer is running
BreathingSettleAdvances ==
    BreathingSettleFires /\ workoutState.breathingIsRunning

\* resetBreathingTimer is called: by the reset button or by leaving the tab
ResetBreathingTimerRuns ==
    ClickBreathingReset \/ SwitchTab

\* C20: the breathing engine has no terminal state: the index moves only
\* when a phase has been exhausted, and then to (index + 1) mod the sequence
\* length, or back to 0 at a start or a reset, so that after N completed
\* phases it is N mod length; breathingIsRunning stays true until
\* resetBreathingTimer is called.
C20_BreathingCycles ==
    /\ [][BreathingSettleAdvances =>
            /\ workoutState.breathingIsTransitioning
            /\ BreathingTimeIsUp(Machine)
            /\ workoutState'.currentBreathingPhaseIndex =
                  (workoutState.currentBreathingPhaseIndex + 1)
                      % Len(workoutState.breathingPhaseSequence)
            /\ workoutState'.breathingIsRunning]_vars
    /\ [][workoutState'.currentBreathingPhaseIndex # workoutState.currentBreathingPhaseIndex =>
            BreathingSettleAdvances \/ workoutState'.currentBreathingPhaseIndex = 0]_vars
    /\ [][(workoutState.breathingIsRunning /\ ~workoutState'.breathingIsRunning) =>
            ResetBreathingTimerRuns]_vars

\* the four breathing phases in the order of the cycle
BreathingOrder == << "breathIn", "inhaledHold", "breathOut", "exhaledHold" >>

\* the phases of the cycle whose configured duration is above 0, in order
BreathingKept(bconfig) ==
    LET IsKept(type) == bconfig[type] > 0
    IN  SelectSeq(BreathingOrder, IsKept)

\* C21: the sequence built for a breathing run is the subsequence of
\* breathIn, inhaledHold, breathOut, exhaledHold, in that order, of the
\* phases whose configured duration is above 0, each with that duration.
C21_BreathingOrdering ==
    workoutState.breathingIsRunning =>
        LET kept == BreathingKept(workoutState.breathingConfig)
            sequence == workoutState.breathingPhaseSequence
        IN  /\ Len(sequence) = Len(kept)
            /\ \A i \in 1..Len(kept) :
                  /\ sequence[i].type = kept[i]
                  /\ sequence[i].duration = workoutState.breathingConfig[kept[i]]

\* a breathing run without the first hold and with the second one
C21_Witness ==
    /\ workoutState.breathingIsRunning
    /\ workoutState.breathingConfig.inhaledHold < 0
    /\ workoutState.breathingConfig.exhaledHold = MaxBuildDuration
    /\ workoutState.breathingConfig.breathIn = 1
    /\ Len(workoutState.breathingPhaseSequence) = 3
    /\ workoutState.breathingPhaseSequence[3].type = "exhaledHold"

\* startTimer is called (the click is counted and nothing is deferred) in
\* interval or head-to-head mode and the configuration it has read from the
\* form is invalid
InvalidStart ==
    /\ clicks'.start = clicks.start + 1
    /\ timers' = timers
    /\ workoutState.workoutMode # "stopwatch"
    /\ \/ workoutState'.config.workDuration <= 0
       \/ workoutState'.config.numberOfRounds <= 0
       \/ IF workoutState.workoutMode = "headToHead"
            THEN workoutState'.config.numberOfPeople <= 0
            ELSE workoutState'.config.setsPerRound <= 0

\* startBreathingTimer is called and the configuration it has read has
\* breath in and breath out both at or below 0
InvalidBreathingStart ==
    /\ clicks'.breathingStart = clicks.breathingStart + 1
    /\ timers' = timers
    /\ workoutState'.breathingConfig.breathIn <= 0
    /\ workoutState'.breathingConfig.breathOut <= 0

\* C22: a start with an invalid configuration is rejected before a sequence
\* is built and creates no run state: isRunning stays false, phaseSequence,
\* totalWorkoutTime, currentPhaseIndex, timeRemaining and elapsedTime are
\* unchanged, no tick interval is started, nothing is scheduled and no start
\* cue is emitted; the same holds for the breathing timer.
C22_InvalidStartRejected ==
    /\ [][InvalidStart =>
            /\ ~workoutState'.isRunning
            /\ UNCHANGED << workoutState.isRunning, workoutState.phaseSequence,
                            workoutState.totalWorkoutTime,
                            workoutState.currentPhaseIndex,
                            workoutState.timeRemaining, workoutState.elapsedTime,
                            workoutState.currentPhase, workoutState.intervalId,
                            liveIntervals, elements, remainder >>
            /\ emitted' = {"alert"}]_vars
    /\ [][InvalidBreathingStart =>
            /\ ~workoutState'.breathingIsRunning
            /\ UNCHANGED << workoutState.breathingIsRunning,
                            workoutState.breathingPhaseSequence,
                            workoutState.currentBreathingPhaseIndex,
                            workoutState.breathingTimeRemaining,
                            workoutState.currentBreathingPhase,
                            workoutState.breathingIntervalId,
                            liveBreathingIntervals, elements, remainder >>
            /\ emitted' = {"alert"}]_vars

\* a start has just been rejected for its work duration
C22_Witness ==
    /\ emitted = {"alert"}
    /\ ~workoutState.isRunning
    /\ ~workoutState.breathingMode
    /\ workoutState.config.workDuration < 0
    /\ workoutState.config.numberOfRounds > 0
    /\ workoutState.phaseSequence = << >>
    /\ liveIntervals = 0

\* pauseTimer and resumeTimer applied to the current state
PauseAndResumeEffect ==
    IF workoutState.isRunning
    THEN /\ pauseTimer(Machine) = [Machine EXCEPT !.ws.isPaused = TRUE]
         /\ resumeTimer(Machine) = [Machine EXCEPT !.ws.isPaused = FALSE]
    ELSE /\ pauseTimer(Machine) = Machine
         /\ resumeTimer(Machine) = Machine

\* pause, up to two ticks, resume, from a running timer that is not paused
PauseTicksResumeRestores ==
    (workoutState.isRunning /\ ~workoutState.isPaused) =>
        \A first, second \in BOOLEAN :
            LET paused == pauseTimer(Machine)
                oneTick == updateTimer(paused, first)
                twoTicks == updateTimer(oneTick, second)
            IN  /\ resumeTimer(paused) = Machine
                /\ resumeTimer(oneTick) = Machine
                /\ resumeTimer(twoTicks) = Machine

\* C23: pause sets isPaused and resume clears it, each only while isRunning
\* is true and without any other change (timeRemaining, elapsedTime,
\* currentPhaseIndex and the sequence included); a click on the pause button
\* is one of the two; pause, any ticks, resume gives back the state before
\* the pause.
C23_PauseResume ==
    /\ [](PauseAndResumeEffect)
    /\ [](PauseTicksResumeRestores)
    /\ [][ClickPause =>
            /\ workoutState' = [workoutState EXCEPT
                                  !.isPaused = IF workoutState.isRunning
                                                 THEN ~workoutState.isPaused
                                                 ELSE workoutState.isPaused]
            /\ UNCHANGED << elements, timers, liveIntervals, remainder,
                            completesSinceLoad >>]_vars

\* a run paused in the middle of a phase, with a live tick driver
C23_Witness ==
    /\ workoutState.isRunning
    /\ workoutState.isPaused
    /\ ~workoutState.isTransitioning
    /\ workoutState.workoutMode = "normal"
    /\ workoutState.currentPhaseIndex = 1
    /\ workoutState.timeRemaining = 1
    /\ workoutState.elapsedTime >= 2
    /\ liveIntervals = 1

\* the workout has just been completed by completeWorkout
CompleteWorkoutRuns == "complete" \in emitted'

\* C24: at most one tick driver of the workout timer is live and intervalId
\* refers to it, whatever start clicks, resets, completions and confirmed
\* restarts came before; after a reset or a completion none is live.
C24_OneTickDriver ==
    /\ [](liveIntervals <= 1)
    /\ [](liveIntervals = 1 <=> workoutState.intervalId = Handle)
    /\ [][(ResetTimerRuns \/ CompleteWorkoutRuns) => liveIntervals' = 0]_vars

\* pending settle callback i runs on a running timer that is paused
SettleRunsWhilePaused(i) ==
    /\ SettleRuns(i)
    /\ workoutState.isRunning
    /\ workoutState.isPaused

StartsNewRound(nextIndex) ==
    /\ nextIndex < Len(workoutState.phaseSequence)
    /\ LET phase == PhaseAt(workoutState.phaseSequence, nextIndex)
       IN  /\ phase.type = "work"
           /\ phase.set = 1
           /\ phase.round > workoutState.currentRound

\* the transitions of a sequence that give the round-start cue: those into a
\* work phase with set 1 whose round is above the round of the phase before
RoundStartCues(sequence) ==
    Cardinality({ i \in 2..Len(sequence) :
                    /\ sequence[i].type = "work"
                    /\ sequence[i].set = 1
                    /\ sequence[i].round > sequence[i - 1].round })

\* R cues with a setup or warmup phase, R - 1 without, R the number of rounds
RoundStartCuesOfRun ==
    (workoutState.isRunning /\ workoutState.workoutMode = "normal") =>
        LET sequence == workoutState.phaseSequence
            rounds == sequence[Len(sequence)].round
        IN  RoundStartCues(sequence) =
                IF sequence[1].type \in {"setup", "warmup"} THEN rounds ELSE rounds - 1

\* currentRound is the round of the phase that is loaded
CurrentRoundIsPhaseRound ==
    (/\ workoutState.isRunning
     /\ workoutState.workoutMode # "stopwatch"
     /\ workoutState.currentPhaseIndex < Len(workoutState.phaseSequence)) =>
        workoutState.currentRound =
            PhaseAt(workoutState.phaseSequence, workoutState.currentPhaseIndex).round

ProgressNumerator(ws) ==
    IF ws.totalWorkoutTime = 0 THEN 0
    ELSE IF ws.elapsedTime < ws.totalWorkoutTime THEN ws.elapsedTime
    ELSE ws.totalWorkoutTime

\* an interval or head-to-head run is under way or has just completed
InIntervalRun ==
    /\ workoutState.workoutMode # "stopwatch"
    /\ workoutState.isRunning \/ workoutState.currentPhase = "complete"

\* C27: the progress shown is elapsedTime / totalWorkoutTime limited to
\* [0, 1]; in every state of an interval or head-to-head run elapsedTime is
\* at most totalWorkoutTime; ticks and transitions of a run never lower the
\* fraction; it is exactly 1 when the run completes.
C27_Progress ==
    /\ [](InIntervalRun => workoutState.elapsedTime <= workoutState.totalWorkoutTime)
    /\ [](InIntervalRun => ProgressNumerator(workoutState) >= 0)
    /\ [][(InIntervalRun /\ (Tick \/ SettleFires \/ ClickPause)) =>
            ProgressNumerator(workoutState') >= ProgressNumerator(workoutState)]_vars
    /\ [][(CompleteWorkoutRuns /\ workoutState.workoutMode # "stopwatch") =>
            ProgressNumerator(workoutState') = workoutState'.totalWorkoutTime]_vars

\* loadCurrentPhase called on the current state with its index moved to
\* index forces the completion and reads no phase
LoadForcesCompletion(index) ==
    LET loaded == loadCurrentPhase([Entry EXCEPT !.ws.currentPhaseIndex = index])
    IN  /\ ~loaded.ws.isRunning
        /\ loaded.ws.currentPhase = "complete"
        /\ loaded.ws.intervalId = Null
        /\ loaded.ws.timeRemaining = workoutState.timeRemaining
        /\ loaded.ws.currentRound = workoutState.currentRound

\* indices outside the sequence: below 0, at the length, after the length
OutsideSequence ==
    { -1, Len(workoutState.phaseSequence), Len(workoutState.phaseSequence) + 1 }

\* C28: a phase load with currentPhaseIndex below 0 or at or after the
\* length of the sequence forces the workout to completion (isRunning false,
\* currentPhase 'complete') and reads no phase; a running interval or
\* head-to-head timer never has its index outside its sequence.
C28_FailSafeCompletion ==
    /\ [](workoutState.isRunning =>
            \A index \in OutsideSequence : LoadForcesCompletion(index))
    /\ []((workoutState.isRunning /\ workoutState.workoutMode # "stopwatch") =>
            /\ workoutState.currentPhaseIndex >= 0
            /\ workoutState.currentPhaseIndex < Len(workoutState.phaseSequence))

\* startTimer is called: by a start click or by the confirmed restart
StartTimerRuns == StartClickFires \/ RestartFires

\* what a start builds and nothing else writes
RunDefinition ==
    << workoutState.phaseSequence, workoutState.totalWorkoutTime, workoutState.config >>

StopwatchStarts ==
    StartTimerRuns /\ workoutState.workoutMode = "stopwatch"

\* the duration of the lap recorded in state m
LapDurationIn(m) ==
    LET laps == recordLap(m).ws.lapTimes
    IN  laps[Len(laps)].lapDuration

\* the stopwatch has just been started: a lap recorded now or after one or
\* two ticks measures 0, 1 or 2 ticks
FirstLapSinceStart ==
    (workoutState.workoutMode = "stopwatch" /\ "start" \in emitted) =>
        LET oneTick == updateTimer(Machine, FALSE)
            twoTicks == updateTimer(oneTick, FALSE)
        IN  /\ LapDurationIn(Machine) = 0
            /\ LapDurationIn(oneTick) = 1
            /\ LapDurationIn(twoTicks) = 2

\* C30: starting the stopwatch keeps the elapsedTime it finds, sets
\* isRunning, clears isPaused and sets the lap mark to that elapsedTime, so
\* that the first lap after the start measures the time since the start.
C30_StopwatchKeepsElapsed ==
    /\ [][StopwatchStarts =>
            /\ workoutState'.elapsedTime = workoutState.elapsedTime
            /\ workoutState'.lapStartTime = workoutState.elapsedTime
            /\ workoutState'.isRunning
            /\ ~workoutState'.isPaused
            /\ workoutState'.lapTimes = workoutState.lapTimes]_vars
    /\ [](FirstLapSinceStart)

\* a stopwatch just started on the elapsedTime an interval run left behind
C30_Witness ==
    /\ workoutState.workoutMode = "stopwatch"
    /\ "start" \in emitted
    /\ workoutState.isRunning
    /\ workoutState.elapsedTime >= 1
    /\ workoutState.lapStartTime = workoutState.elapsedTime
    /\ workoutState.currentPhase = "complete"

-----------------------------------------------------------------------------
(* The page with both tabs: the workout timer in interval mode and the     *)
(* breathing timer side by side, the two forms filled in once              *)

\* contents of the two forms while both tabs are followed: one work
\* interval, breath in and breath out
PageNormalForms == { NormalForm(-1, 0, 1, 0, 0, 1, 1) }
PageBreathingForms == { BreathingForm(1, -1, 1, -1) }

PageStartClickFires ==
    \E i \in 1..Len(timers) :
        /\ timers[i].kind = "startClick"
        /\ CanFire(i)
        /\ \E form \in PageNormalForms : Becomes(startTimer(Fired(i), form))

PageRestartFires ==
    \E i \in 1..Len(timers) :
        /\ timers[i].kind = "restart"
        /\ CanFire(i)
        /\ \E form \in PageNormalForms : Becomes(startTimer(Fired(i), form))

PageBreathingStartClickFires ==
    \E i \in 1..Len(timers) :
        /\ timers[i].kind = "breathingStartClick"
        /\ CanFire(i)
        /\ \E form \in PageBreathingForms :
              Becomes(startBreathingTimer(Fired(i), form))

\* what the workout timer does, and what the breathing timer does
WorkoutOperation ==
    \/ ClickStart
    \/ PageStartClickFires
    \/ Tick
    \/ SettleFires
    \/ CompletionFires
    \/ PageRestartFires
    \/ ClickPause
    \/ ClickReset

BreathingOperation ==
    \/ ClickBreathingStart
    \/ PageBreathingStartClickFires
    \/ BreathingTick
    \/ BreathingSettleFires
    \/ ClickBreathingPause
    \/ ClickBreathingReset

NextPage ==
    \/ SwitchTab
    \/ WorkoutOperation
    \/ BreathingOperation

SpecPage == Init /\ [][NextPage]_vars

-----------------------------------------------------------------------------
(* C31: the two machines are independent *)

BreathingKinds == {"breathingSettle", "breathingStartClick"}

PendingOf(queue, kinds) == SelectSeq(queue, LAMBDA t : t.kind \in kinds)

\* the state of the workout timer: its fields of workoutState, its drivers,
\* its controls and its pending callbacks
WorkoutTimerState ==
    << workoutState.config, workoutState.workoutMode, workoutState.currentPhase,
       workoutState.currentRound, workoutState.currentSet, workoutState.nextSet,
       workoutState.currentPerson, workoutState.timeRemaining,
       workoutState.totalWorkoutTime, workoutState.elapsedTime,
       workoutState.lapTimes, workoutState.lapStartTime, workoutState.intervalId,
       workoutState.isPaused, workoutState.isRunning, workoutState.isCompleting,
       workoutState.isTransitioning, workoutState.phaseSequence,
       workoutState.currentPhaseIndex,
       liveIntervals, remainder.timeRemaining,
       elements.startBtn, elements.pauseBtn, elements.lapBtn,
       PendingOf(timers, {"settle", "completion", "restart", "startClick"}) >>

\* the state of the breathing timer, likewise
BreathingTimerState ==
    << workoutState.breathingConfig, workoutState.currentBreathingPhase,
       workoutState.breathingTimeRemaining, workoutState.breathingPhaseSequence,
       workoutState.currentBreathingPhaseIndex, workoutState.breathingIntervalId,
       workoutState.breathingIsPaused, workoutState.breathingIsRunning,
       workoutState.breathingIsTransitioning,
       liveBreathingIntervals, remainder.breathingTimeRemaining,
       elements.breathingStartBtn, elements.breathingPauseBtn,
       PendingOf(timers, BreathingKinds) >>

\* C31: a start click, a start, a tick, a pause or resume, a reset, a settle
\* callback, a completion and its follow-up of the workout timer leave every
\* field of the breathing timer (phase, index, time remaining, sequence,
\* configuration, running, paused and transitioning flags, driver, controls,
\* pending callbacks) as it was, and the same operations of the breathing
\* timer leave every field of the workout timer as it was.  The fields the
\* two timers share by design (hasInteracted, wakeLock, the audio context)
\* are not timer fields and are not part of the statement.
C31_MachinesIndependent ==
    [][/\ WorkoutOperation => UNCHANGED BreathingTimerState
       /\ BreathingOperation => UNCHANGED WorkoutTimerState]_vars

\* both timers under way, the workout timer has just finished a phase while
\* the breathing timer is in the middle of its second phase
C31_Witness ==
    /\ workoutState.isRunning
    /\ workoutState.breathingIsRunning
    /\ "phaseComplete" \in emitted
    /\ workoutState.isTransitioning
    /\ workoutState.currentBreathingPhaseIndex = 1
    /\ workoutState.breathingTimeRemaining = 1

-----------------------------------------------------------------------------
(* The interval timer with its completion follow-up, the callbacks that    *)
(* setTimeout has accepted being run in the end                            *)

\* contents of the interval form when a run is started or restarted: one
\* work interval, setup and one work interval, and a rejected form
FollowUpForms ==
    { NormalForm(-1, 0, 1, 0, 0, 1, 1),
      NormalForm(1, 0, 1, 0, 0, 1, 1),
      NormalForm(1, 0, -1, 0, 0, 1, 1) }

FollowUpStartClickFires ==
    \E i \in 1..Len(timers) :
        /\ timers[i].kind = "startClick"
        /\ CanFire(i)
        /\ \E form \in FollowUpForms : Becomes(startTimer(Fired(i), form))

FollowUpRestartFires ==
    \E i \in 1..Len(timers) :
        /\ timers[i].kind = "restart"
        /\ CanFire(i)
        /\ \E form \in FollowUpForms : Becomes(startTimer(Fired(i), form))

NextFollowUp ==
    \/ ClickStart
    \/ FollowUpStartClickFires
    \/ Tick
    \/ SettleFires
    \/ CompletionFires
    \/ FollowUpRestartFires
    \/ ClickPause
    \/ ClickReset

\* a callback given to setTimeout runs once its delay has passed
SpecFollowUp ==
    /\ Init
    /\ [][NextFollowUp]_vars
    /\ WF_vars(FollowUpStartClickFires)
    /\ WF_vars(SettleFires)
    /\ WF_vars(CompletionFires)
    /\ WF_vars(FollowUpRestartFires)

-----------------------------------------------------------------------------
(* C32: the follow-up of a completion *)

\* the configurations loadConfigFromForm can read at a restart
ConfigsReadAtRestart ==
    { loadConfigFromForm(Entry, form).ws.config : form \in FollowUpForms }

\* the restart callback runs and startTimer accepts the form it reads
RestartBeginsRun == FollowUpRestartFires /\ "start" \in emitted'

\* C32: the follow-up of a completion leaves the machine in the ready state
\* whatever the answer to its dialog; when the restart it schedules runs and
\* startTimer accepts the form, the machine is running at phase index 0 with
\* elapsedTime 0 and with the sequence and total built from the
\* configuration read from the form in that call; and every state with
\* currentPhase 'complete' is followed by the ready state.
C32_FollowUpResets ==
    /\ [][CompletionFires => ReadyState']_vars
    /\ [][RestartBeginsRun =>
            /\ workoutState'.isRunning
            /\ workoutState'.currentPhaseIndex = 0
            /\ workoutState'.elapsedTime = 0
            /\ workoutState'.config \in ConfigsReadAtRestart
            /\ workoutState'.phaseSequence = PhaseSequenceOf(workoutState'.config)
            /\ workoutState'.totalWorkoutTime =
                   SumDurations(workoutState'.phaseSequence)]_vars
    /\ (workoutState.currentPhase = "complete") ~> ReadyState

\* a restarted run whose form was changed after the first start: the first
\* run had one phase, the restarted one has two
C32_Witness ==
    /\ clicks.restart = 1
    /\ clicks.start = 1
    /\ workoutState.isRunning
    /\ "start" \in emitted
    /\ Len(workoutState.phaseSequence) = 2
    /\ completesSinceLoad = 0
    /\ workoutState.currentPhaseIndex = 0
    /\ workoutState.elapsedTime = 0

-----------------------------------------------------------------------------
(* C33: the follow-up and the run it belongs to *)

\* pending callback i is the follow-up of a run that is over: the machine
\* was reset after that run completed, or a new run has been started
FollowUpOutlivedItsRun(i) ==
    /\ timers[i].kind = "completion"
    /\ timers[i].stale \/ workoutState.isRunning

\* C33: a completion follow-up that runs after the user has reset the machine
\* or started a new run shows no completion dialog, leaves the workout state
\* as it is (no reset of the new state) and schedules no restart.
C33_FollowUpActsOnItsRun ==
    [][\A i \in 1..Len(timers) :
          (FollowUpOutlivedItsRun(i) /\ CompletionRuns(i)) =>
              /\ "completionDialog" \notin emitted'
              /\ workoutState' = workoutState
              /\ \A j \in 1..Len(timers') : timers'[j].kind # "restart"]_vars

-----------------------------------------------------------------------------
(* C34: the phases of a run, one after the other *)

\* a step inside a run (no start in it) that loads a phase: the index moves,
\* or timeRemaining is set back up
PhaseLoadedInRun ==
    /\ workoutState.workoutMode # "stopwatch"
    /\ workoutState.isRunning
    /\ workoutState'.isRunning
    /\ "start" \notin emitted'
    /\ \/ workoutState'.currentPhaseIndex # workoutState.currentPhaseIndex
       \/ workoutState'.timeRemaining > workoutState.timeRemaining

\* C34: inside a run, also one started shortly after a reset, a phase is
\* loaded only when the phase before it has counted down to 0, and it is the
\* phase at the next index: no phase is loaded twice, skipped or cut short.
C34_PhasesInOrder ==
    [][PhaseLoadedInRun =>
          /\ TimeIsUp(Machine)
          /\ workoutState'.currentPhaseIndex = workoutState.currentPhaseIndex + 1]_vars

-----------------------------------------------------------------------------
(* C35: the current phase is the phase at the current index *)

\* C35: while an interval or head-to-head timer is running, in the settle
\* delay too, currentPhaseIndex is an index of phaseSequence and
\* currentPhase, currentRound, currentSet, nextSet and currentPerson are the
\* type, round, set, nextSet and person of the phase at that index.
C35_CurrentPhaseAtIndex ==
    (workoutState.isRunning /\ workoutState.workoutMode # "stopwatch") =>
        /\ workoutState.currentPhaseIndex \in 0..(Len(workoutState.phaseSequence) - 1)
        /\ LET phase == PhaseAt(workoutState.phaseSequence,
                                workoutState.currentPhaseIndex)
           IN  /\ workoutState.currentPhase = phase.type
               /\ workoutState.currentRound = phase.round
               /\ workoutState.currentSet = phase.set
               /\ workoutState.nextSet = phase.nextSet
               /\ workoutState.currentPerson = phase.person

-----------------------------------------------------------------------------
(* C36: the time of a run, spent and to come *)

\* the durations of the phases after the current one
DurationsAfterCurrent ==
    SumDurations(SubSeq(workoutState.phaseSequence,
                        workoutState.currentPhaseIndex + 2,
                        Len(workoutState.phaseSequence)))

\* C36: in every state of a running interval or head-to-head timer,
\* elapsedTime, timeRemaining and the durations of the phases after the
\* current one add up to totalWorkoutTime, and in the completed state
\* elapsedTime is totalWorkoutTime.
C36_TimeAccounting ==
    /\ (workoutState.isRunning /\ workoutState.workoutMode # "stopwatch") =>
          workoutState.elapsedTime + workoutState.timeRemaining
              + DurationsAfterCurrent = workoutState.totalWorkoutTime
    /\ workoutState.currentPhase = "complete" =>
          workoutState.elapsedTime = workoutState.totalWorkoutTime

-----------------------------------------------------------------------------
(* C37: the transitioning sub-state *)

\* the breathing timer's ready state, as resetBreathingTimer leaves it
BreathingReadyState ==
    /\ ~workoutState.breathingIsRunning
    /\ ~workoutState.breathingIsPaused
    /\ ~workoutState.breathingIsTransitioning
    /\ workoutState.currentBreathingPhase = "ready"
    /\ workoutState.breathingIntervalId = Null

\* startTimer has loaded phase 0 and nothing has been counted yet
FirstPhaseJustLoaded ==
    /\ workoutState.currentPhaseIndex = 0
    /\ workoutState.elapsedTime = 0
    /\ Len(workoutState.phaseSequence) > 0
    /\ workoutState.timeRemaining = PhaseAt(workoutState.phaseSequence, 0).duration

-----------------------------------------------------------------------------
(* C38: no stuck state *)

\* a settle callback is pending: the advancement is on its way
AdvancementPending ==
    \E i \in 1..Len(timers) : timers[i].kind = "settle"

\* C38: a running interval or head-to-head timer that is neither paused nor
\* transitioning has time left on its phase, so that the next tick is
\* accepted and counts; a running timer with no time left always has its
\* advancement pending.
C38_NoStuckState ==
    (workoutState.isRunning /\ workoutState.workoutMode # "stopwatch") =>
        /\ (~workoutState.isPaused /\ ~workoutState.isTransitioning) =>
               ~TimeIsUp(Machine)
        /\ TimeIsUp(Machine) => AdvancementPending

-----------------------------------------------------------------------------
(* C39: one timer at a time *)

\* C39: after any sequence of start clicks, tab switches, resets and
\* completions, the workout timer and the breathing timer are not both
\* running.
C39_OneTimerAtATime ==
    ~(workoutState.isRunning /\ workoutState.breathingIsRunning)

=============================================================================
